---- MODULE Spec2Model ----
(***************************************************************************)
(* Resource admission and lifecycle control layer of src/main.py:          *)
(*   - the global concurrency gate (_CONC_SEM) around process_paper,       *)
(*   - the lazy singleton loader (lazy_load_stable_diffusion),             *)
(*   - the per-client token bucket (_rate_limit_check),                    *)
(*   - the workspace eviction sweep (_cleanup_temp_dir),                   *)
(*   - the signed download links (build_url, download_signed),             *)
(*   - the dependencies of process_paper (require_bearer_token,            *)
(*     enforce_rate_limit),                                                *)
(*   - the steps of process_paper after the load, and status.              *)
(* Each component has its own specification over its own variables; the    *)
(* variables of the other components are left unchanged by it.             *)
(***************************************************************************)
EXTENDS Integers, Sequences, FiniteSets, TLC

(***************************************************************************)
(* Bounds of the model.                                                    *)
(***************************************************************************)
MaxReq == 3          \* process_paper requests (each request id is used once)
MaxLimit == 2        \* CONCURRENCY_LIMIT ranges over 1..MaxLimit

MaxKeys == 2         \* client keys of the rate limiter
MaxCapacity == 3     \* RATE_LIMIT_PER_MINUTE ranges up to MaxCapacity
MaxCalls == 5        \* admission checks made in one run of the rate limiter
TimeStep == 20       \* seconds between two clock readings of the model
MaxTicks == 3        \* clock readings are 0, TimeStep, ..., MaxTicks * TimeStep
MaxThreads == 3      \* worker threads running enforce_rate_limit at once
MaxWs == 2           \* workspaces ever created under TEMP_DIR
MaxClock == 2        \* the sweep's clock runs from 0 to MaxClock
MaxSize == 1         \* largest size of one workspace
MaxTTL == 1          \* TTL_SECONDS, in clock units
MaxCap == 2          \* SIZE_CAP_BYTES is MaxCap - 1 or MaxCap
MaxRidLen == 1       \* longest rid of a download link, in characters
MaxFileLen == 2      \* longest file name of a download link, in characters
DlStep == 300        \* seconds between two clock readings of the downloads
MaxDlTicks == 3      \* their clock readings are 0, DlStep, ..., MaxDlTicks * DlStep

Reqs == 1..MaxReq
Keys == 1..MaxKeys
Times == {k * TimeStep : k \in 0..MaxTicks}
WsIds == 1..MaxWs
Threads == 1..MaxThreads

\* ENABLE_SDXL (src/main.py:69), default "true".
ENABLE_SDXL == TRUE

VARIABLES
  \* ---- concurrency gate and process_paper ----
  CONCURRENCY_LIMIT,  \* configured limit (src/main.py:67), fixed at start-up
  CONC_SEM,           \* _CONC_SEM._value: the number of free slots
  pc,                 \* pc[r]: where request r's coroutine is
  cur,                \* the coroutine running on the event loop, 0 = none
  generate_visual,    \* generate_visual[r]: request parameter
  want_visual,        \* want_visual[r]: local of process_paper
  pipe,               \* pipe[r]: local of process_paper, 0 = None
  warnings,           \* warnings[r]: local list, as a set
  dirs,               \* request directories that exist under TEMP_DIR
  outcome,            \* outcome[r]: how process_paper ended
  acquired,           \* acquired[r]: acquire() returned for r
  released,           \* released[r]: number of release() calls made by r
  \* ---- lazy singleton loader ----
  SDXL_PIPE,          \* _SDXL_PIPE, 0 = None, else the instance (its creator)
  SDXL_LOADING,       \* _SDXL_LOADING
  SDXL_LOAD_LOCK,     \* holder of _SDXL_LOAD_LOCK, 0 = free
  thr,                \* thr[r]: executor thread started by r's run_in_executor
  thrRet,             \* thrRet[r]: what initialize_stable_diffusion returned
  llRes,              \* llRes[r]: how lazy_load_stable_diffusion ended for r
  waitedOn,           \* waitedOn[r]: the loader whose load was in flight
                      \* when r arrived at the load lock, 0 = none
  \* ---- rate limiter ----
  RATE_LIMIT_PER_MINUTE,  \* configured capacity (src/main.py:66)
  RATE_BUCKETS,       \* _RATE_BUCKETS: key -> [tokens, last]; tokens are
                      \* counted in 1/TokenScale of a token
  rlCalls,            \* rlCalls[k]: admission checks made for key k
  rlAdmits,           \* rlAdmits[k]: how many of them were admitted
  rlSameNow,          \* rlSameNow[k]: all checks of k carried the same `now`
  rlLast,             \* the last check: [key, now, admitted], key 0 = none
  \* ---- rate limiter on several worker threads, one client key ----
  rcBucket,           \* _RATE_BUCKETS.get(key): 0 = None, else the dict made by
                      \* that thread
  rcObj,              \* rcObj[t]: the dict [tokens, last] that thread t made
  rcPc,               \* rcPc[t]: where thread t is in _rate_limit_check
  rcNow,              \* rcNow[t]: argument `now`
  rcRef,              \* rcRef[t]: local `bucket`
  rcElapsed,          \* rcElapsed[t]: local `elapsed`
  rcTmp,              \* rcTmp[t]: value computed and not yet stored
  rcRet,              \* rcRet[t]: "none", "admitted", "rejected"
  \* ---- workspace sweep ----
  TTL_SECONDS,        \* configured TTL (src/main.py:54), in clock units
  SIZE_CAP_BYTES,     \* configured cap (src/main.py:55), in size units
  clock,              \* time.time()
  ws,                 \* ws[w]: [state, mtime, size] of the directory TEMP_DIR/w
  wsReq,              \* wsReq[w]: the process_paper request whose request_id
                      \* is w: "none", "running", or how it ended
  swPc,               \* where the thread of _runner is: "idle" (between two
                      \* sweeps), "ttl_done" (inside _cleanup_temp_dir, after
                      \* the TTL pass), "dead" (the thread has ended)
  swNow,              \* local `now` of _cleanup_temp_dir, 0 outside a sweep
  \* ---- signed downloads ----
  SIGNED_DOWNLOADS,   \* configured switch (src/main.py:71)
  DOWNLOAD_SIGNING_KEY,  \* configured key (src/main.py:72), a string
  dlClock,            \* int(time.time())
  dlFiles,            \* the paths that exist under TEMP_DIR
  dlRef,              \* the query string of the last link a build_url made
  dlReq,              \* the parameters of the last GET /download
  dlResp,             \* its response, and the time it was made at
  \* ---- dependencies of process_paper ----
  API_AUTH_TOKEN,     \* configured token (src/main.py:65), "" = not configured
  dep,                \* dep[r]: "new", "passed" (both dependencies returned),
                      \* or the status code of the HTTPException that a
                      \* dependency raised
  charged,            \* charged[r]: _rate_limit_check took a token for r
  \* ---- process_paper and status, one request at a time ----
  ppPipe,             \* _SDXL_PIPE, 0 = None
  ppWs,               \* ppWs[w]: the directory TEMP_DIR/w: [state, files]
  ppRun,              \* the last run of process_paper: what its steps did
                      \* and the response
  stResp,             \* the response of GET /status
  \* ---- rate limiter under a clock that does not go back ----
  ckClock,            \* time.time() at the last check
  ckAdmits            \* ckAdmits[k][t]: checks of key k admitted at reading t

gateVars == <<CONCURRENCY_LIMIT, CONC_SEM, pc, cur, generate_visual, want_visual,
              pipe, warnings, dirs, outcome, acquired, released>>
loadVars == <<SDXL_PIPE, SDXL_LOADING, SDXL_LOAD_LOCK, thr, thrRet, llRes, waitedOn>>
rlVars == <<RATE_LIMIT_PER_MINUTE, RATE_BUCKETS, rlCalls, rlAdmits, rlSameNow, rlLast>>
sweepVars == <<TTL_SECONDS, SIZE_CAP_BYTES, clock, ws, wsReq, swPc, swNow>>
raceVars == <<rcBucket, rcObj, rcPc, rcNow, rcRef, rcElapsed, rcTmp, rcRet>>
dlVars == <<SIGNED_DOWNLOADS, DOWNLOAD_SIGNING_KEY, dlClock, dlFiles, dlRef, dlReq,
            dlResp>>
admVars == <<API_AUTH_TOKEN, dep, charged>>
paperVars == <<ppPipe, ppWs, ppRun, stResp>>
clockVars == <<ckClock, ckAdmits>>
vars == <<gateVars, loadVars, rlVars, raceVars, sweepVars, dlVars, admVars, paperVars,
          clockVars>>

(***************************************************************************)
(* State after import of the module: the semaphore is full, the handle is  *)
(* Unloaded, no request has arrived.                                       *)
(***************************************************************************)
GateInit ==
  /\ CONCURRENCY_LIMIT \in 1..MaxLimit
  /\ CONC_SEM = CONCURRENCY_LIMIT
  /\ pc = [r \in Reqs |-> "idle"]
  /\ cur = 0
  /\ generate_visual = [r \in Reqs |-> FALSE]
  /\ want_visual = [r \in Reqs |-> FALSE]
  /\ pipe = [r \in Reqs |-> 0]
  /\ warnings = [r \in Reqs |-> {}]
  /\ dirs = {}
  /\ outcome = [r \in Reqs |-> "none"]
  /\ acquired = [r \in Reqs |-> FALSE]
  /\ released = [r \in Reqs |-> 0]
  /\ SDXL_PIPE = 0
  /\ SDXL_LOADING = FALSE
  /\ SDXL_LOAD_LOCK = 0
  /\ thr = [r \in Reqs |-> "none"]
  /\ thrRet = [r \in Reqs |-> 0]
  /\ llRes = [r \in Reqs |-> "none"]
  /\ waitedOn = [r \in Reqs |-> 0]

(***************************************************************************)
(* process_paper.  The coroutines run on one event loop: between two       *)
(* awaits that suspend, a coroutine runs alone (cur = r).  Executor        *)
(* threads run in parallel with the loop.                                  *)
(***************************************************************************)

\* The dependencies let the request in and the body starts: `await
\* _CONC_SEM.acquire()` returns at once when a slot is free, else suspends.
Arrive(r, gv) ==
  /\ cur = 0
  /\ pc[r] = "idle"
  /\ generate_visual' = [generate_visual EXCEPT ![r] = gv]
  /\ IF CONC_SEM > 0
       THEN /\ CONC_SEM' = CONC_SEM - 1
            /\ acquired' = [acquired EXCEPT ![r] = TRUE]
            /\ pc' = [pc EXCEPT ![r] = "mkdir"]
            /\ cur' = r
       ELSE /\ pc' = [pc EXCEPT ![r] = "acquire"]
            /\ UNCHANGED <<CONC_SEM, acquired, cur>>
  /\ UNCHANGED <<CONCURRENCY_LIMIT, want_visual, pipe, warnings, dirs, outcome, released>>
  /\ UNCHANGED loadVars

\* A waiter that is woken although no slot is free.
GrantWithoutSlot(r) ==
  /\ cur = 0
  /\ pc[r] = "acquire"
  /\ CONC_SEM' = CONC_SEM - 1
  /\ acquired' = [acquired EXCEPT ![r] = TRUE]
  /\ pc' = [pc EXCEPT ![r] = "mkdir"]
  /\ cur' = r
  /\ UNCHANGED <<CONCURRENCY_LIMIT, generate_visual, want_visual, pipe, warnings,
                 dirs, outcome, released>>
  /\ UNCHANGED loadVars

\* A request suspended in acquire() is granted a slot that became free.
Grant(r) ==
  /\ cur = 0
  /\ pc[r] = "acquire"
  /\ CONC_SEM > 0
  /\ CONC_SEM' = CONC_SEM - 1
  /\ acquired' = [acquired EXCEPT ![r] = TRUE]
  /\ pc' = [pc EXCEPT ![r] = "mkdir"]
  /\ cur' = r
  /\ UNCHANGED <<CONCURRENCY_LIMIT, generate_visual, want_visual, pipe, warnings,
                 dirs, outcome, released>>
  /\ UNCHANGED loadVars

\* Lines 952-970: the request directory, the warnings list, want_visual.
Mkdir(r) ==
  /\ cur = r
  /\ pc[r] = "mkdir"
  /\ dirs' = dirs \cup {r}
  /\ warnings' = [warnings EXCEPT ![r] = {}]
  /\ want_visual' = [want_visual EXCEPT ![r] = ENABLE_SDXL /\ generate_visual[r]]
  /\ pc' = [pc EXCEPT ![r] = IF ENABLE_SDXL /\ generate_visual[r]
                               THEN "ll_fast" ELSE "validate"]
  /\ UNCHANGED <<CONCURRENCY_LIMIT, CONC_SEM, cur, generate_visual, pipe, outcome,
                 acquired, released>>
  /\ UNCHANGED loadVars

(***************************************************************************)
(* lazy_load_stable_diffusion, called from process_paper line 973.         *)
(***************************************************************************)

\* Lines 294-297: the fast path, then `async with _SDXL_LOAD_LOCK`.
LLFast(r) ==
  /\ cur = r
  /\ pc[r] = "ll_fast"
  /\ IF SDXL_PIPE # 0
       THEN /\ pipe' = [pipe EXCEPT ![r] = SDXL_PIPE]
            /\ llRes' = [llRes EXCEPT ![r] = "returned"]
            /\ pc' = [pc EXCEPT ![r] = "validate"]
            /\ UNCHANGED <<SDXL_LOAD_LOCK, cur, waitedOn>>
       ELSE IF SDXL_LOAD_LOCK = 0
         THEN /\ SDXL_LOAD_LOCK' = r
              /\ pc' = [pc EXCEPT ![r] = "ll_locked"]
              /\ UNCHANGED <<pipe, llRes, cur, waitedOn>>
         ELSE /\ pc' = [pc EXCEPT ![r] = "lock_wait"]
              /\ waitedOn' = [waitedOn EXCEPT ![r] = SDXL_LOAD_LOCK]
              /\ cur' = 0
              /\ UNCHANGED <<pipe, llRes, SDXL_LOAD_LOCK>>
  /\ UNCHANGED <<CONCURRENCY_LIMIT, CONC_SEM, generate_visual, want_visual, warnings,
                 dirs, outcome, acquired, released>>
  /\ UNCHANGED <<SDXL_PIPE, SDXL_LOADING, thr, thrRet>>

\* Lines 299-319, under the lock: the second check, the _SDXL_LOADING
\* branch, else the hand-over of initialize_stable_diffusion to the executor.
LLLocked(r) ==
  /\ cur = r
  /\ pc[r] = "ll_locked"
  /\ IF SDXL_PIPE # 0
       THEN /\ pipe' = [pipe EXCEPT ![r] = SDXL_PIPE]
            /\ llRes' = [llRes EXCEPT ![r] = "returned"]
            /\ SDXL_LOAD_LOCK' = 0
            /\ pc' = [pc EXCEPT ![r] = "validate"]
            /\ UNCHANGED <<cur, SDXL_LOADING, thr>>
       ELSE IF SDXL_LOADING
         THEN /\ pc' = [pc EXCEPT ![r] = "poll"]
              /\ cur' = 0
              /\ UNCHANGED <<pipe, llRes, SDXL_LOAD_LOCK, SDXL_LOADING, thr>>
         ELSE /\ SDXL_LOADING' = TRUE
              /\ thr' = [thr EXCEPT ![r] = "submitted"]
              /\ pc' = [pc EXCEPT ![r] = "exec_wait"]
              /\ cur' = 0
              /\ UNCHANGED <<pipe, llRes, SDXL_LOAD_LOCK>>
  /\ UNCHANGED <<CONCURRENCY_LIMIT, CONC_SEM, generate_visual, want_visual, warnings,
                 dirs, outcome, acquired, released>>
  /\ UNCHANGED <<SDXL_PIPE, thrRet, waitedOn>>

\* A coroutine suspended on the load lock gets it (line 297), or one
\* sleeping in the polling loop wakes up (lines 304-306).
Resume(r) ==
  /\ cur = 0
  /\ pc[r] \in {"lock_wait", "poll"}
  /\ IF pc[r] = "lock_wait"
       THEN /\ SDXL_LOAD_LOCK = 0
            /\ SDXL_LOAD_LOCK' = r
            /\ pc' = [pc EXCEPT ![r] = "ll_locked"]
            /\ cur' = r
            /\ UNCHANGED <<pipe, llRes>>
       ELSE IF SDXL_LOADING
         THEN UNCHANGED <<SDXL_LOAD_LOCK, pc, cur, pipe, llRes>>
         ELSE /\ pipe' = [pipe EXCEPT ![r] = SDXL_PIPE]
              /\ llRes' = [llRes EXCEPT ![r] = "returned"]
              /\ SDXL_LOAD_LOCK' = 0
              /\ pc' = [pc EXCEPT ![r] = "validate"]
              /\ cur' = r
  /\ UNCHANGED <<CONCURRENCY_LIMIT, CONC_SEM, generate_visual, want_visual, warnings,
                 dirs, outcome, acquired, released>>
  /\ UNCHANGED <<SDXL_PIPE, SDXL_LOADING, thr, thrRet, waitedOn>>

(***************************************************************************)
(* initialize_stable_diffusion, on an executor thread.                     *)
(***************************************************************************)

\* Lines 444-445: return the instance if there is one already.
InitCheck(t) ==
  /\ thr[t] = "submitted"
  /\ IF SDXL_PIPE # 0
       THEN /\ thrRet' = [thrRet EXCEPT ![t] = SDXL_PIPE]
            /\ thr' = [thr EXCEPT ![t] = "returned"]
       ELSE /\ thr' = [thr EXCEPT ![t] = "loading"]
            /\ UNCHANGED thrRet
  /\ UNCHANGED gateVars
  /\ UNCHANGED <<SDXL_PIPE, SDXL_LOADING, SDXL_LOAD_LOCK, llRes, waitedOn>>

\* Lines 476-477 / 496-497: the thread stores the new instance itself.
InitStore(t) ==
  /\ thr[t] = "loading"
  /\ SDXL_PIPE' = t
  /\ thrRet' = [thrRet EXCEPT ![t] = t]
  /\ thr' = [thr EXCEPT ![t] = "returned"]
  /\ UNCHANGED gateVars
  /\ UNCHANGED <<SDXL_LOADING, SDXL_LOAD_LOCK, llRes, waitedOn>>

\* Lines 498-512: any failure of the load is raised as an HTTPException.
InitRaise(t) ==
  /\ thr[t] = "loading"
  /\ thr' = [thr EXCEPT ![t] = "raised"]
  /\ UNCHANGED gateVars
  /\ UNCHANGED <<SDXL_PIPE, SDXL_LOADING, SDXL_LOAD_LOCK, thrRet, llRes, waitedOn>>

\* A loader that resumes with the thread's result and keeps the lock.
ExecDoneKeepsLock(r) ==
  /\ cur = 0
  /\ pc[r] = "exec_wait"
  /\ thr[r] \in {"returned", "raised"}
  /\ SDXL_LOADING' = FALSE
  /\ pc' = [pc EXCEPT ![r] = "validate"]
  /\ cur' = r
  /\ IF thr[r] = "returned"
       THEN /\ SDXL_PIPE' = thrRet[r]
            /\ pipe' = [pipe EXCEPT ![r] = thrRet[r]]
            /\ llRes' = [llRes EXCEPT ![r] = "returned"]
            /\ UNCHANGED <<want_visual, warnings>>
       ELSE /\ llRes' = [llRes EXCEPT ![r] = "raised"]
            /\ want_visual' = [want_visual EXCEPT ![r] = FALSE]
            /\ warnings' = [warnings EXCEPT ![r] = @ \cup {"SDXL_LOAD_FAILED"}]
            /\ UNCHANGED <<SDXL_PIPE, pipe>>
  /\ UNCHANGED <<CONCURRENCY_LIMIT, CONC_SEM, generate_visual, dirs, outcome,
                 acquired, released>>
  /\ UNCHANGED <<SDXL_LOAD_LOCK, thr, thrRet, waitedOn>>

\* Lines 319-329 and 973-978: the loader resumes with the thread's result.
ExecDone(r) ==
  /\ cur = 0
  /\ pc[r] = "exec_wait"
  /\ thr[r] \in {"returned", "raised"}
  /\ SDXL_LOADING' = FALSE
  /\ SDXL_LOAD_LOCK' = 0
  /\ pc' = [pc EXCEPT ![r] = "validate"]
  /\ cur' = r
  /\ IF thr[r] = "returned"
       THEN /\ SDXL_PIPE' = thrRet[r]
            /\ pipe' = [pipe EXCEPT ![r] = thrRet[r]]
            /\ llRes' = [llRes EXCEPT ![r] = "returned"]
            /\ UNCHANGED <<want_visual, warnings>>
       ELSE /\ llRes' = [llRes EXCEPT ![r] = "raised"]
            /\ want_visual' = [want_visual EXCEPT ![r] = FALSE]
            /\ warnings' = [warnings EXCEPT ![r] = @ \cup {"SDXL_LOAD_FAILED"}]
            /\ UNCHANGED <<SDXL_PIPE, pipe>>
  /\ UNCHANGED <<CONCURRENCY_LIMIT, CONC_SEM, generate_visual, dirs, outcome,
                 acquired, released>>
  /\ UNCHANGED <<thr, thrRet, waitedOn>>

\* Lines 980-1108: the rest of the body has no await; it ends with a return,
\* an HTTPException or an unexpected exception, and the finally block
\* releases the semaphore.
Outcomes == {"ok", "http_error", "internal_error"}

Finish(r, how) ==
  /\ cur = r
  /\ pc[r] = "validate"
  /\ outcome' = [outcome EXCEPT ![r] = how]
  /\ CONC_SEM' = CONC_SEM + 1
  /\ released' = [released EXCEPT ![r] = @ + 1]
  /\ pc' = [pc EXCEPT ![r] = "done"]
  /\ cur' = 0
  /\ UNCHANGED <<CONCURRENCY_LIMIT, generate_visual, want_visual, pipe, warnings,
                 dirs, acquired>>
  /\ UNCHANGED loadVars

\* The request is cancelled while suspended at an await: CancelledError
\* passes the `except Exception` clauses, the finally blocks run (lines 329,
\* 1092-1108), an executor thread already started keeps running.
Abort(r) ==
  /\ cur = 0
  /\ pc[r] \in {"acquire", "lock_wait", "poll", "exec_wait"}
  /\ SDXL_LOADING' = IF pc[r] = "exec_wait" THEN FALSE ELSE SDXL_LOADING
  /\ SDXL_LOAD_LOCK' = IF pc[r] \in {"poll", "exec_wait"} THEN 0 ELSE SDXL_LOAD_LOCK
  /\ llRes' = [llRes EXCEPT ![r] = IF pc[r] = "acquire" THEN @ ELSE "cancelled"]
  /\ CONC_SEM' = CONC_SEM + 1
  /\ released' = [released EXCEPT ![r] = @ + 1]
  /\ outcome' = [outcome EXCEPT ![r] = "cancelled"]
  /\ pc' = [pc EXCEPT ![r] = "done"]
  /\ UNCHANGED <<CONCURRENCY_LIMIT, cur, generate_visual, want_visual, pipe, warnings,
                 dirs, acquired>>
  /\ UNCHANGED <<SDXL_PIPE, thr, thrRet, waitedOn>>

(***************************************************************************)
(* Rate limiter: _rate_limit_check and enforce_rate_limit.                 *)
(***************************************************************************)

\* Line 611 divides the capacity by 60.0 to get the refill per second: the
\* model counts tokens in sixtieths, so that a second refills `capacity`
\* units and one token is TokenScale units.
TokenScale == 60

Min(a, b) == IF a <= b THEN a ELSE b

\* A first bucket that is full: the first check would not be paid for.
NewBucketFull(capacity, now) == [tokens |-> capacity * TokenScale, last |-> now]

\* A first bucket that does not take the time of the check.
NewBucketStale(capacity, now) == [tokens |-> (capacity - 1) * TokenScale, last |-> 0]

\* Line 614: the bucket of a key seen for the first time.
NewBucket(capacity, now) == [tokens |-> (capacity - 1) * TokenScale, last |-> now]

\* Line 616: elapsed = max(0.0, now - bucket["last"]).
Elapsed(now, last) == IF now - last > 0 THEN now - last ELSE 0

\* A refill that is not clamped to the capacity.
RefillUnclamped(capacity, tokens, elapsed) == tokens + elapsed * capacity

\* Line 618: min(capacity, tokens + elapsed * refill_rate_per_sec).
Refill(capacity, tokens, elapsed) ==
  Min(capacity * TokenScale, tokens + elapsed * capacity)

\* A test that asks for more than one token.
HasTokenStrict(tokens) == tokens > TokenScale

\* A test that is content with a fraction of a token.
HasTokenFraction(tokens) == tokens > 0

\* Line 619: bucket["tokens"] >= 1.0.
HasToken(tokens) == tokens >= TokenScale

\* One bucket for all the keys.
RateLimitCheckShared(buckets, capacity, key, now) ==
  IF DOMAIN buckets = {}
    THEN [buckets |-> [k \in Keys |-> NewBucket(capacity, now)], admitted |-> TRUE]
    ELSE LET elapsed == Elapsed(now, buckets[key].last)
             filled == Refill(capacity, buckets[key].tokens, elapsed)
         IN IF HasToken(filled)
              THEN [buckets |-> [k \in Keys |->
                                   [tokens |-> filled - TokenScale, last |-> now]],
                    admitted |-> TRUE]
              ELSE [buckets |-> [k \in Keys |-> [tokens |-> filled, last |-> now]],
                    admitted |-> FALSE]

\* A rejected check that stores `last` but not the refilled tokens.
RateLimitCheckDropsRefill(buckets, capacity, key, now) ==
  IF key \notin DOMAIN buckets
    THEN [buckets |-> (key :> NewBucket(capacity, now)) @@ buckets,
          admitted |-> TRUE]
    ELSE LET elapsed == Elapsed(now, buckets[key].last)
             filled == Refill(capacity, buckets[key].tokens, elapsed)
         IN IF HasToken(filled)
              THEN [buckets |-> [buckets EXCEPT ![key] =
                                   [tokens |-> filled - TokenScale, last |-> now]],
                    admitted |-> TRUE]
              ELSE [buckets |-> [buckets EXCEPT ![key] =
                                   [tokens |-> buckets[key].tokens, last |-> now]],
                    admitted |-> FALSE]

\* Lines 608-622: the buckets after the call and its return value.
RateLimitCheck(buckets, capacity, key, now) ==
  IF key \notin DOMAIN buckets
    THEN [buckets |-> (key :> NewBucket(capacity, now)) @@ buckets,
          admitted |-> TRUE]
    ELSE LET elapsed == Elapsed(now, buckets[key].last)
             filled == Refill(capacity, buckets[key].tokens, elapsed)
         IN IF HasToken(filled)
              THEN [buckets |-> [buckets EXCEPT ![key] =
                                   [tokens |-> filled - TokenScale, last |-> now]],
                    admitted |-> TRUE]
              ELSE [buckets |-> [buckets EXCEPT ![key] =
                                   [tokens |-> filled, last |-> now]],
                    admitted |-> FALSE]

\* A dependency that limits whatever the capacity is.
EnforceRateLimitAlways(buckets, capacity, key, now) ==
  RateLimitCheck(buckets, capacity, key, now)

\* Lines 624-630: no limiting when the capacity is 0 or less.
EnforceRateLimit(buckets, capacity, key, now) ==
  IF capacity <= 0
    THEN [buckets |-> buckets, admitted |-> TRUE]
    ELSE RateLimitCheck(buckets, capacity, key, now)

Capacities == (0 - 1)..MaxCapacity

RLInitWith(capacity) ==
  /\ RATE_LIMIT_PER_MINUTE = capacity
  /\ RATE_BUCKETS = << >>
  /\ rlCalls = [k \in Keys |-> 0]
  /\ rlAdmits = [k \in Keys |-> 0]
  /\ rlSameNow = [k \in Keys |-> TRUE]
  /\ rlLast = [key |-> 0, now |-> 0, admitted |-> FALSE]

RLInit == \E capacity \in Capacities : RLInitWith(capacity)

RECURSIVE SumCalls(_, _)
SumCalls(calls, S) ==
  IF S = {} THEN 0
  ELSE LET k == CHOOSE x \in S : TRUE IN calls[k] + SumCalls(calls, S \ {k})

\* One request passes the enforce_rate_limit dependency with client key
\* `key` at clock reading `now`.
Check(key, now) ==
  /\ LET res == EnforceRateLimit(RATE_BUCKETS, RATE_LIMIT_PER_MINUTE, key, now)
     IN /\ RATE_BUCKETS' = res.buckets
        /\ rlLast' = [key |-> key, now |-> now, admitted |-> res.admitted]
        /\ rlAdmits' = [rlAdmits EXCEPT ![key] = IF res.admitted THEN @ + 1 ELSE @]
  /\ rlCalls' = [rlCalls EXCEPT ![key] = @ + 1]
  /\ rlSameNow' = [rlSameNow EXCEPT ![key] =
                     @ /\ (key \in DOMAIN RATE_BUCKETS => RATE_BUCKETS[key].last = now)]
  /\ UNCHANGED RATE_LIMIT_PER_MINUTE

\* The same, for a run of at most MaxCalls checks.
Enforce(key, now) ==
  /\ SumCalls(rlCalls, Keys) < MaxCalls
  /\ Check(key, now)

(***************************************************************************)
(* The rate limiter under the clock of the process: time.time() does not   *)
(* go back from one check to the next.                                     *)
(***************************************************************************)
ClockInit ==
  /\ ckClock = 0
  /\ ckAdmits = [k \in Keys |-> [t \in Times |-> 0]]

\* The admitted checks, with the last check counted in.
Counted(key, now) ==
  /\ ckClock' = now
  /\ ckAdmits' = [ckAdmits EXCEPT ![key][now] = IF rlLast'.admitted THEN @ + 1 ELSE @]

\* A check of key `key` at a reading that is not before the last one.
TimedCheck(key, now) ==
  /\ now >= ckClock
  /\ Enforce(key, now)
  /\ Counted(key, now)

\* A client that was checked before comes again after a positive interval.
Retry(key, now) ==
  /\ now >= ckClock
  /\ key \in DOMAIN RATE_BUCKETS => now > RATE_BUCKETS[key].last
  /\ Check(key, now)
  /\ Counted(key, now)

(***************************************************************************)
(* The dependencies of process_paper (lines 946-947): the framework calls  *)
(* require_bearer_token, then enforce_rate_limit, each on a worker thread, *)
(* and runs the body of process_paper only when both have returned; an     *)
(* HTTPException raised by a dependency is the response of the request.    *)
(***************************************************************************)

\* The Authorization header: absent, or a scheme and a token.
NoHeader == [scheme |-> "", token |-> ""]
Tokens == {"good", "bad"}
Headers ==
  {NoHeader, [scheme |-> "Basic", token |-> "good"]}
    \cup [scheme : {"Bearer"}, token : Tokens]

\* request.client.host of the requests.
ClientHost == "host"

\* Lines 589-598: "ok", or the status code of the HTTPException raised.
RequireBearerToken(token, header) ==
  IF token = "" THEN "ok"
  ELSE IF header = NoHeader \/ header.scheme # "Bearer" THEN "401"
  ELSE IF header.token # token THEN "403"
  ELSE "ok"

\* Lines 600-606: the token of a Bearer header, else the client's address.
ClientKey(header, host) ==
  IF header # NoHeader /\ header.scheme = "Bearer"
    THEN <<"tok", header.token>>
    ELSE <<"ip", host>>

\* The two dependencies in the order line 946 and line 947 name them, with
\* the rate limit asked first.
SolveDependenciesRateFirst(token, buckets, capacity, header, host, now) ==
  LET res == EnforceRateLimit(buckets, capacity, ClientKey(header, host), now)
      auth == RequireBearerToken(token, header)
  IN [code |-> IF ~res.admitted THEN "429" ELSE IF auth # "ok" THEN auth ELSE "passed",
      buckets |-> res.buckets,
      charged |-> res.admitted /\ capacity > 0]

\* Lines 946-947: require_bearer_token, and when it returned,
\* enforce_rate_limit; the first HTTPException ends the request.
SolveDependencies(token, buckets, capacity, header, host, now) ==
  LET auth == RequireBearerToken(token, header)
      res == EnforceRateLimit(buckets, capacity, ClientKey(header, host), now)
  IN IF auth # "ok"
       THEN [code |-> auth, buckets |-> buckets, charged |-> FALSE]
       ELSE [code |-> IF res.admitted THEN "passed" ELSE "429",
             buckets |-> res.buckets,
             charged |-> res.admitted /\ capacity > 0]

AdmInitWith(token) ==
  /\ API_AUTH_TOKEN = token
  /\ dep = [r \in Reqs |-> "new"]
  /\ charged = [r \in Reqs |-> FALSE]

AdmInit == \E token \in {"", "good"} : AdmInitWith(token)

\* Request r comes in with the header `header`; the requests of a run come
\* in within one second, at clock reading 0.
Depends(r, header) ==
  /\ dep[r] = "new"
  /\ LET res == SolveDependencies(API_AUTH_TOKEN, RATE_BUCKETS, RATE_LIMIT_PER_MINUTE,
                                  header, ClientHost, 0)
     IN /\ RATE_BUCKETS' = res.buckets
        /\ dep' = [dep EXCEPT ![r] = res.code]
        /\ charged' = [charged EXCEPT ![r] = res.charged]
  /\ UNCHANGED <<RATE_LIMIT_PER_MINUTE, rlCalls, rlAdmits, rlSameNow, rlLast>>
  /\ UNCHANGED API_AUTH_TOKEN

\* The body of process_paper runs for r only after both dependencies
\* returned.
DepsPassed(r) == dep[r] = "passed"

(***************************************************************************)
(* _rate_limit_check on several worker threads.  enforce_rate_limit is a   *)
(* synchronous dependency, so the framework runs it on a pool of worker    *)
(* threads; the function takes no lock, and the interpreter may switch     *)
(* threads between any two reads or writes of the shared dictionaries.     *)
(* All threads carry the same client key.                                  *)
(***************************************************************************)
RaceInit ==
  /\ rcBucket = 0
  /\ rcObj = [t \in Threads |-> [tokens |-> 0, last |-> 0]]
  /\ rcPc = [t \in Threads |-> "none"]
  /\ rcNow = [t \in Threads |-> 0]
  /\ rcRef = [t \in Threads |-> 0]
  /\ rcElapsed = [t \in Threads |-> 0]
  /\ rcTmp = [t \in Threads |-> 0]
  /\ rcRet = [t \in Threads |-> "none"]

\* Lines 624-628: the dependency calls _rate_limit_check(key, time.time()).
RcCall(t, now) ==
  /\ rcPc[t] = "none"
  /\ RATE_LIMIT_PER_MINUTE > 0
  /\ rcNow' = [rcNow EXCEPT ![t] = now]
  /\ rcPc' = [rcPc EXCEPT ![t] = "get"]
  /\ UNCHANGED <<rcBucket, rcObj, rcRef, rcElapsed, rcTmp, rcRet>>

\* Lines 612-613: bucket = _RATE_BUCKETS.get(key).
RcGet(t) ==
  /\ rcPc[t] = "get"
  /\ rcRef' = [rcRef EXCEPT ![t] = rcBucket]
  /\ rcPc' = [rcPc EXCEPT ![t] = IF rcBucket = 0 THEN "create" ELSE "read_last"]
  /\ UNCHANGED <<rcBucket, rcObj, rcNow, rcElapsed, rcTmp, rcRet>>

\* Lines 614-615: a new dict is stored under the key.
RcCreate(t) ==
  /\ rcPc[t] = "create"
  /\ rcObj' = [rcObj EXCEPT ![t] = NewBucket(RATE_LIMIT_PER_MINUTE, rcNow[t])]
  /\ rcBucket' = t
  /\ rcRet' = [rcRet EXCEPT ![t] = "admitted"]
  /\ rcPc' = [rcPc EXCEPT ![t] = "done"]
  /\ UNCHANGED <<rcNow, rcRef, rcElapsed, rcTmp>>

\* Line 616: elapsed is computed from bucket["last"].
RcReadLast(t) ==
  /\ rcPc[t] = "read_last"
  /\ rcElapsed' = [rcElapsed EXCEPT ![t] = Elapsed(rcNow[t], rcObj[rcRef[t]].last)]
  /\ rcPc' = [rcPc EXCEPT ![t] = "write_last"]
  /\ UNCHANGED <<rcBucket, rcObj, rcNow, rcRef, rcTmp, rcRet>>

\* Line 617: bucket["last"] = now.
RcWriteLast(t) ==
  /\ rcPc[t] = "write_last"
  /\ rcObj' = [rcObj EXCEPT ![rcRef[t]].last = rcNow[t]]
  /\ rcPc' = [rcPc EXCEPT ![t] = "read_tokens"]
  /\ UNCHANGED <<rcBucket, rcNow, rcRef, rcElapsed, rcTmp, rcRet>>

\* Line 618, right-hand side: bucket["tokens"] is read.
RcReadTokens(t) ==
  /\ rcPc[t] = "read_tokens"
  /\ rcTmp' = [rcTmp EXCEPT ![t] =
                 Refill(RATE_LIMIT_PER_MINUTE, rcObj[rcRef[t]].tokens, rcElapsed[t])]
  /\ rcPc' = [rcPc EXCEPT ![t] = "write_tokens"]
  /\ UNCHANGED <<rcBucket, rcObj, rcNow, rcRef, rcElapsed, rcRet>>

\* Line 618, the store.
RcWriteTokens(t) ==
  /\ rcPc[t] = "write_tokens"
  /\ rcObj' = [rcObj EXCEPT ![rcRef[t]].tokens = rcTmp[t]]
  /\ rcPc' = [rcPc EXCEPT ![t] = "test"]
  /\ UNCHANGED <<rcBucket, rcNow, rcRef, rcElapsed, rcTmp, rcRet>>

\* Lines 619 and 622.
RcTest(t) ==
  /\ rcPc[t] = "test"
  /\ IF HasToken(rcObj[rcRef[t]].tokens)
       THEN /\ rcPc' = [rcPc EXCEPT ![t] = "read_dec"]
            /\ UNCHANGED rcRet
       ELSE /\ rcPc' = [rcPc EXCEPT ![t] = "done"]
            /\ rcRet' = [rcRet EXCEPT ![t] = "rejected"]
  /\ UNCHANGED <<rcBucket, rcObj, rcNow, rcRef, rcElapsed, rcTmp>>

\* Line 620, bucket["tokens"] -= 1.0: the read and the subtraction.
RcReadDec(t) ==
  /\ rcPc[t] = "read_dec"
  /\ rcTmp' = [rcTmp EXCEPT ![t] = rcObj[rcRef[t]].tokens - TokenScale]
  /\ rcPc' = [rcPc EXCEPT ![t] = "write_dec"]
  /\ UNCHANGED <<rcBucket, rcObj, rcNow, rcRef, rcElapsed, rcRet>>

\* Lines 620-621: the store, and return True.
RcWriteDec(t) ==
  /\ rcPc[t] = "write_dec"
  /\ rcObj' = [rcObj EXCEPT ![rcRef[t]].tokens = rcTmp[t]]
  /\ rcRet' = [rcRet EXCEPT ![t] = "admitted"]
  /\ rcPc' = [rcPc EXCEPT ![t] = "done"]
  /\ UNCHANGED <<rcBucket, rcNow, rcRef, rcElapsed, rcTmp>>

RaceTimes == {0, TimeStep}

(***************************************************************************)
(* Workspace sweep: _cleanup_temp_dir.                                     *)
(***************************************************************************)
PresentIds(W) == {w \in WsIds : W[w].state = "present"}

\* shutil.rmtree(path, ignore_errors=True) on each workspace of D.
RmTrees(W, D) ==
  [w \in WsIds |-> IF w \in D THEN [W[w] EXCEPT !.state = "removed"] ELSE W[w]]

\* An age test that also takes the workspaces of age exactly TTL.
IsExpiredAtTTL(now, mtime, ttl) == now - mtime >= ttl

\* Line 367: now - entry["mtime"] > TTL_SECONDS.
IsExpired(now, mtime, ttl) == now - mtime > ttl

\* Lines 365-371: the workspaces the TTL pass deletes.
Expired(W, now, ttl) == {w \in PresentIds(W) : IsExpired(now, W[w].mtime, ttl)}

\* Lines 374-385: total_size over the directories that are left.
RECURSIVE SumSizes(_, _)
SumSizes(W, S) ==
  IF S = {} THEN 0
  ELSE LET w == CHOOSE x \in S : TRUE IN W[w].size + SumSizes(W, S \ {w})

\* Line 389: kept.sort(key=mtime); the order among equal mtimes is that of
\* os.listdir, which is arbitrary.
RECURSIVE Orders(_)
Orders(S) ==
  IF S = {} THEN {<< >>}
  ELSE UNION {{<<w>> \o o : o \in Orders(S \ {w})} : w \in S}

\* A sort that leaves the entries in the order of os.listdir.
UnsortedOrders(W, S) == Orders(S)

SortedOrders(W, S) ==
  {o \in Orders(S) : \A i \in 1..Len(o), j \in 1..Len(o) :
                       i < j => W[o[i]].mtime <= W[o[j]].mtime}

\* Lines 390-397: delete in that order until total_size is at or under the
\* cap; the size of an entry is subtracted whether or not rmtree removed it.
RECURSIVE CapLoop(_, _, _, _, _, _, _)

\* A loop that stops only when total_size is strictly under the cap.
RECURSIVE CapLoopBelowCap(_, _, _, _, _, _, _)
CapLoopBelowCap(W, order, i, total, cap, fail, tried) ==
  IF i > Len(order) \/ total < cap
    THEN [ws |-> W, tried |-> tried, total |-> total]
    ELSE LET w == order[i]
         IN CapLoopBelowCap(RmTrees(W, {w} \ fail), order, i + 1,
                            total - W[w].size, cap, fail, Append(tried, w))

CapLoop(W, order, i, total, cap, fail, tried) ==
  IF i > Len(order) \/ total <= cap
    THEN [ws |-> W, tried |-> tried, total |-> total]
    ELSE LET w == order[i]
         IN CapLoop(RmTrees(W, {w} \ fail), order, i + 1, total - W[w].size,
                    cap, fail, Append(tried, w))

\* A size-cap pass without the test of line 388: the loop is entered
\* with the oldest entry already deleted.
SizeCapPassNoGuard(W, order, total, cap, fail) ==
  IF Len(order) > 0
    THEN CapLoop(RmTrees(W, {order[1]} \ fail), order, 2,
                 total - W[order[1]].size, cap, fail, <<order[1]>>)
    ELSE [ws |-> W, tried |-> << >>, total |-> total]

\* Lines 387-397.
SizeCapPass(W, order, total, cap, fail) ==
  IF total > cap
    THEN CapLoop(W, order, 1, total, cap, fail, << >>)
    ELSE [ws |-> W, tried |-> << >>, total |-> total]

\* Lines 348-371: the first scan and the TTL pass.  `fail` are the
\* workspaces whose deletion fails: rmtree swallows the error and leaves
\* the directory in place.
TTLPass(W, now, ttl, fail) == RmTrees(W, Expired(W, now, ttl) \ fail)

\* Lines 348-399 as a whole, for one order of the sort: the directories
\* left by one call of _cleanup_temp_dir.
CleanupTempDir(W, now, ttl, cap, order, fail) ==
  LET W1 == TTLPass(W, now, ttl, fail)
  IN SizeCapPass(W1, order, SumSizes(W1, PresentIds(W1)), cap, fail).ws

SweepInitWith(ttl, cap) ==
  /\ TTL_SECONDS = ttl
  /\ SIZE_CAP_BYTES = cap
  /\ clock = 0
  /\ ws = [w \in WsIds |-> [state |-> "absent", mtime |-> 0, size |-> 0]]
  /\ wsReq = [w \in WsIds |-> "none"]
  /\ swPc = "idle"
  /\ swNow = 0

SweepInit ==
  \E cap \in (MaxCap - 1)..MaxCap : SweepInitWith(MaxTTL, cap)

\* A request creates its directory (lines 953-955); the id is a fresh uuid,
\* so ids are never reused.
CreateWs(w) ==
  /\ ws[w].state = "absent"
  /\ \A v \in WsIds : v < w => ws[v].state # "absent"
  /\ ws' = [ws EXCEPT ![w] = [state |-> "present", mtime |-> clock, size |-> 0]]
  /\ wsReq' = [wsReq EXCEPT ![w] = "running"]
  /\ UNCHANGED <<TTL_SECONDS, SIZE_CAP_BYTES, clock, swPc, swNow>>

\* The request writes a file into its directory (lines 990-1053).
AddFile(w, bytes) ==
  /\ wsReq[w] = "running"
  /\ ws[w].state = "present"
  /\ ws[w].size + bytes <= MaxSize
  /\ ws' = [ws EXCEPT ![w] = [@ EXCEPT !.mtime = clock, !.size = @ + bytes]]
  /\ UNCHANGED <<TTL_SECONDS, SIZE_CAP_BYTES, clock, wsReq, swPc, swNow>>

\* The request ends: it returns (line 1073), raises an HTTPException or an
\* unexpected error (lines 1086-1091) or is cancelled; the finally block
\* (lines 1092-1108) touches no file, so the four exits differ in nothing
\* the sweep can see.
Exits == Outcomes \cup {"cancelled"}

\* An exit that removes the request's directory unless the request
\* succeeded.
EndReqCleansUp(w, how) ==
  /\ wsReq[w] = "running"
  /\ wsReq' = [wsReq EXCEPT ![w] = "ended"]
  /\ ws' = IF how = "ok" THEN ws ELSE RmTrees(ws, {w})
  /\ UNCHANGED <<TTL_SECONDS, SIZE_CAP_BYTES, clock, swPc, swNow>>

EndReq(w, how) ==
  /\ wsReq[w] = "running"
  /\ wsReq' = [wsReq EXCEPT ![w] = "ended"]
  /\ UNCHANGED <<TTL_SECONDS, SIZE_CAP_BYTES, clock, ws, swPc, swNow>>

Tick ==
  /\ clock < MaxClock
  /\ clock' = clock + 1
  /\ UNCHANGED <<TTL_SECONDS, SIZE_CAP_BYTES, ws, wsReq, swPc, swNow>>

\* _cleanup_temp_dir, lines 348-371, run by _runner (lines 403-406).
SweepTTL(fail) ==
  /\ swPc = "idle"
  /\ swNow' = clock
  /\ ws' = TTLPass(ws, clock, TTL_SECONDS, fail)
  /\ swPc' = "ttl_done"
  /\ UNCHANGED <<TTL_SECONDS, SIZE_CAP_BYTES, clock, wsReq>>

\* _cleanup_temp_dir, lines 373-399: the second scan and the size-cap pass.
SweepCap(fail) ==
  /\ swPc = "ttl_done"
  /\ LET kept == PresentIds(ws)
         total == SumSizes(ws, kept)
     IN \E order \in SortedOrders(ws, kept) :
          ws' = SizeCapPass(ws, order, total, SIZE_CAP_BYTES, fail).ws
  /\ swPc' = "idle"
  /\ swNow' = 0
  /\ UNCHANGED <<TTL_SECONDS, SIZE_CAP_BYTES, clock, wsReq>>

\* An error escapes the body of _cleanup_temp_dir (os.listdir of line 376
\* raises): an end of the runner's thread, which the handler does not do.
SweepErrorEndsRunner ==
  /\ swPc = "ttl_done"
  /\ swPc' = "dead"
  /\ swNow' = 0
  /\ UNCHANGED <<TTL_SECONDS, SIZE_CAP_BYTES, clock, ws, wsReq>>

\* Lines 398-399: os.listdir of the second scan (line 376) raises; the
\* handler logs a warning, _cleanup_temp_dir returns and _runner sleeps
\* until the next sweep.
SweepError ==
  /\ swPc = "ttl_done"
  /\ swPc' = "idle"
  /\ swNow' = 0
  /\ UNCHANGED <<TTL_SECONDS, SIZE_CAP_BYTES, clock, ws, wsReq>>

(***************************************************************************)
(* Signed downloads: the two build_url functions and download_signed.      *)
(* Strings are sequences of characters.                                    *)
(***************************************************************************)
Chars == {".", "/", ":"}

RECURSIVE StrsOfLen(_)
StrsOfLen(n) ==
  IF n = 0 THEN {<< >>}
  ELSE {<<c>> \o str : c \in Chars, str \in StrsOfLen(n - 1)}

StrsUpTo(n) == UNION {StrsOfLen(k) : k \in 0..n}
Rids == StrsUpTo(MaxRidLen)
FileNames == StrsUpTo(MaxFileLen)
DlTimes == {k * DlStep : k \in 0..MaxDlTicks}

\* Line 48.
TEMP_DIR == <<"temp_files">>

\* Lines 553 and 1064: the lifetime of a link, in seconds.
StatusLinkSeconds == 600
ResponseLinkSeconds == 900

\* str(int), as the f-strings of lines 554, 577 and 1066 and urlencode
\* apply it to `expires`.
Digits == <<"0", "1", "2", "3", "4", "5", "6", "7", "8", "9">>

RECURSIVE IntStr(_)
IntStr(n) ==
  IF n < 10 THEN <<Digits[n + 1]>>
  ELSE IntStr(n \div 10) \o <<Digits[(n % 10) + 1]>>

\* The conversion of the query parameter exp: int (line 570).
DigitVal(d) == CHOOSE v \in 0..9 : Digits[v + 1] = d

RECURSIVE ParseInt(_)
ParseInt(str) ==
  IF Len(str) = 1 THEN DigitVal(str[1])
  ELSE 10 * ParseInt(SubSeq(str, 1, Len(str) - 1)) + DigitVal(str[Len(str)])

\* urlencode (lines 556, 1068): "/" and ":" are percent-encoded.
QuoteChar(c) ==
  IF c = "/" THEN <<"%", "2", "F">>
  ELSE IF c = ":" THEN <<"%", "3", "A">>
  ELSE <<c>>

RECURSIVE Quote(_)
Quote(str) ==
  IF str = << >> THEN << >> ELSE QuoteChar(Head(str)) \o Quote(Tail(str))

\* The decoding of a query parameter by the framework (line 570).
RECURSIVE Unquote(_)
Unquote(str) ==
  IF str = << >> THEN << >>
  ELSE IF Head(str) = "%" /\ Len(str) >= 3 /\ SubSeq(str, 2, 3) = <<"2", "F">>
    THEN <<"/">> \o Unquote(SubSeq(str, 4, Len(str)))
  ELSE IF Head(str) = "%" /\ Len(str) >= 3 /\ SubSeq(str, 2, 3) = <<"3", "A">>
    THEN <<":">> \o Unquote(SubSeq(str, 4, Len(str)))
  ELSE <<Head(str)>> \o Unquote(Tail(str))

\* Lines 554, 577, 1066: f"{rid}:{file}:{exp}".
Msg(rid, file, exp) == rid \o <<":">> \o file \o <<":">> \o IntStr(exp)

\* hmac.new(key, msg, sha256).hexdigest() (lines 555, 578, 1067): a
\* keyed digest; two digests are equal when key and message are.
Hmac(key, msg) == <<"hmac", key, msg>>

\* A comparison that looks at the kind of the two values only.
CompareDigestKind(a, b) == a[1] = b[1]

\* hmac.compare_digest (line 579).
CompareDigest(a, b) == a = b

\* `sub in str` (line 582).
Contains(str, sub) ==
  \E i \in 1..(Len(str) - Len(sub) + 1) :
    SubSeq(str, i, i + Len(sub) - 1) = sub

\* os.path.join of two components.
Join2(a, b) ==
  IF b # << >> /\ Head(b) = "/" THEN b
  ELSE IF a = << >> \/ a[Len(a)] = "/" THEN a \o b
  ELSE a \o <<"/">> \o b

\* Line 584: os.path.join(TEMP_DIR, rid, file).
PathOf(rid, file) == Join2(Join2(TEMP_DIR, rid), file)

NoRef == [kind |-> "none", rid |-> << >>, file |-> << >>, exp |-> << >>,
          sig |-> << >>, at |-> 0]
NoReq == [kind |-> "none", rid |-> << >>, file |-> << >>, exp |-> 0, sig |-> << >>]
NoResp == [status |-> 0, detail |-> "", path |-> << >>, at |-> 0]

\* build_url of status (lines 552-559) and of process_paper (lines
\* 1061-1072); `at` records the time of issue.
BuildUrl(signed, key, now, lifetime, rid, file) ==
  IF signed /\ key # << >>
    THEN LET expires == now + lifetime
         IN [kind |-> "signed", rid |-> Quote(rid), file |-> Quote(file),
             exp |-> IntStr(expires),
             sig |-> Hmac(key, Msg(rid, file, expires)), at |-> now]
    ELSE [kind |-> "static", rid |-> rid, file |-> file, exp |-> << >>,
          sig |-> << >>, at |-> now]

Fail(code, text, now) == [status |-> code, detail |-> text, path |-> << >>, at |-> now]

\* A download_signed that treats a link as expired from now = exp on.
DownloadSignedExpiresAtExp(signed, key, files, now, rid, file, exp, sig) ==
  IF ~(signed /\ key # << >>) THEN Fail(404, "Downloads not signed", now)
  ELSE IF now >= exp THEN Fail(410, "Link expired", now)
  ELSE IF ~CompareDigest(Hmac(key, Msg(rid, file, exp)), sig)
    THEN Fail(403, "Invalid signature", now)
  ELSE IF Contains(file, <<"/">>) \/ Contains(file, <<".", ".">>)
    THEN Fail(400, "Invalid file parameter", now)
  ELSE IF PathOf(rid, file) \notin files THEN Fail(404, "File not found", now)
  ELSE [status |-> 200, detail |-> "file", path |-> PathOf(rid, file), at |-> now]

\* A download_signed that checks the signature before the expiry.
DownloadSignedSigFirst(signed, key, files, now, rid, file, exp, sig) ==
  IF ~(signed /\ key # << >>) THEN Fail(404, "Downloads not signed", now)
  ELSE IF ~CompareDigest(Hmac(key, Msg(rid, file, exp)), sig)
    THEN Fail(403, "Invalid signature", now)
  ELSE IF now > exp THEN Fail(410, "Link expired", now)
  ELSE IF Contains(file, <<"/">>) \/ Contains(file, <<".", ".">>)
    THEN Fail(400, "Invalid file parameter", now)
  ELSE IF PathOf(rid, file) \notin files THEN Fail(404, "File not found", now)
  ELSE [status |-> 200, detail |-> "file", path |-> PathOf(rid, file), at |-> now]

\* download_signed, lines 569-587.
DownloadSigned(signed, key, files, now, rid, file, exp, sig) ==
  IF ~(signed /\ key # << >>) THEN Fail(404, "Downloads not signed", now)
  ELSE IF now > exp THEN Fail(410, "Link expired", now)
  ELSE IF ~CompareDigest(Hmac(key, Msg(rid, file, exp)), sig)
    THEN Fail(403, "Invalid signature", now)
  ELSE IF Contains(file, <<"/">>) \/ Contains(file, <<".", ".">>)
    THEN Fail(400, "Invalid file parameter", now)
  ELSE IF PathOf(rid, file) \notin files THEN Fail(404, "File not found", now)
  ELSE [status |-> 200, detail |-> "file", path |-> PathOf(rid, file), at |-> now]

\* The files that requests have written under TEMP_DIR.
StoredPaths ==
  {PathOf(rid, file) : rid \in {<<".">>, <<":">>},
                       file \in {<<".">>, <<":">>, <<".", ":">>}}

\* What a client may put into the exp and sig parameters.
ExpValues ==
  DlTimes \cup {t + StatusLinkSeconds : t \in DlTimes}
          \cup {t + ResponseLinkSeconds : t \in DlTimes}
ForgedSig(rid, file, exp) == Hmac(<<"x">>, Msg(rid, file, exp))

DlInitWith(signed, key) ==
  /\ SIGNED_DOWNLOADS = signed
  /\ DOWNLOAD_SIGNING_KEY = key
  /\ dlClock = 0
  /\ dlFiles = StoredPaths
  /\ dlRef = NoRef
  /\ dlReq = NoReq
  /\ dlResp = NoResp

DlInit == \E signed \in BOOLEAN, key \in {<< >>, <<"k">>} : DlInitWith(signed, key)

DlTick ==
  /\ dlClock < MaxDlTicks * DlStep
  /\ dlClock' = dlClock + DlStep
  /\ UNCHANGED <<SIGNED_DOWNLOADS, DOWNLOAD_SIGNING_KEY, dlFiles, dlRef, dlReq, dlResp>>

\* GET /status/{rid} makes the link of a file that exists (lines 544-566).
\* A run follows one link: build_url keeps no state either.
StatusUrl ==
  /\ dlRef = NoRef
  /\ dlReq = NoReq
  /\ \E rid \in Rids, file \in FileNames :
       /\ PathOf(rid, file) \in dlFiles
       /\ dlRef' = BuildUrl(SIGNED_DOWNLOADS, DOWNLOAD_SIGNING_KEY, dlClock,
                            StatusLinkSeconds, rid, file)
  /\ dlReq' = NoReq
  /\ dlResp' = NoResp
  /\ UNCHANGED <<SIGNED_DOWNLOADS, DOWNLOAD_SIGNING_KEY, dlClock, dlFiles>>

\* process_paper makes the link of an artifact (lines 1060-1079).
ResponseUrl ==
  /\ dlRef = NoRef
  /\ dlReq = NoReq
  /\ \E rid \in Rids, file \in FileNames :
       dlRef' = BuildUrl(SIGNED_DOWNLOADS, DOWNLOAD_SIGNING_KEY, dlClock,
                         ResponseLinkSeconds, rid, file)
  /\ dlReq' = NoReq
  /\ dlResp' = NoResp
  /\ UNCHANGED <<SIGNED_DOWNLOADS, DOWNLOAD_SIGNING_KEY, dlClock, dlFiles>>

\* The parameters download_signed receives when the client follows the
\* link as it was made.
Parsed(ref) ==
  [kind |-> "issued", rid |-> Unquote(ref.rid), file |-> Unquote(ref.file),
   exp |-> ParseInt(ref.exp), sig |-> ref.sig]

\* GET /download with the parameters `req` (lines 569-587).
Download(req) ==
  /\ dlReq' = req
  /\ dlResp' = DownloadSigned(SIGNED_DOWNLOADS, DOWNLOAD_SIGNING_KEY, dlFiles,
                              dlClock, req.rid, req.file, req.exp, req.sig)
  /\ UNCHANGED <<SIGNED_DOWNLOADS, DOWNLOAD_SIGNING_KEY, dlClock, dlFiles, dlRef>>

\* The client follows the link.
DownloadIssued ==
  /\ dlRef.kind = "signed"
  /\ Download(Parsed(dlRef))

\* The client follows the link with one parameter changed, once for each
\* link: download_signed keeps no state.
Tampered(ref) ==
  IF ref.kind # "signed" THEN {}
  ELSE
    LET req == Parsed(ref)
    IN {[req EXCEPT !.kind = "tampered", !.rid = rid] : rid \in Rids \ {req.rid}}
       \cup {[req EXCEPT !.kind = "tampered", !.file = file] :
               file \in FileNames \ {req.file}}
       \cup {[req EXCEPT !.kind = "tampered", !.exp = exp] :
               exp \in ExpValues \ {req.exp}}
       \cup {[req EXCEPT !.kind = "tampered",
                         !.sig = ForgedSig(req.rid, req.file, req.exp)]}

DownloadTampered ==
  /\ dlRef.kind = "signed"
  /\ dlReq.kind \in {"none", "issued"}
  /\ \E req \in Tampered(dlRef) : Download(req)

\* The client follows the link with its sig and exp and with the text
\* rid:file cut at another ":" into rid and file, once for each link.
Respliced(ref) ==
  IF ref.kind # "signed" THEN {}
  ELSE
    LET req == Parsed(ref)
        cuts == {<<rid, file>> \in (Rids \ {req.rid}) \X (FileNames \ {req.file}) :
                   rid \o <<":">> \o file = req.rid \o <<":">> \o req.file}
    IN {[req EXCEPT !.kind = "respliced", !.rid = c[1], !.file = c[2]] : c \in cuts}

DownloadRespliced ==
  /\ dlRef.kind = "signed"
  /\ dlReq.kind \in {"none", "issued"}
  /\ \E req \in Respliced(dlRef) : Download(req)

\* A client that was given no link makes the parameters up.
\* download_signed keeps no state, so one attempt shows every response.
DownloadForged ==
  /\ dlRef = NoRef
  /\ dlReq = NoReq
  /\ \E rid \in Rids, file \in FileNames, exp \in ExpValues :
       Download([kind |-> "forged", rid |-> rid, file |-> file, exp |-> exp,
                 sig |-> ForgedSig(rid, file, exp)])

(***************************************************************************)
(* process_paper from the request directory to the response, and status,   *)
(* for requests that come one at a time: what the steps of one request     *)
(* leave on disk and in the response when optional steps fail.             *)
(***************************************************************************)

\* ENABLE_TTS (src/main.py:70), default "true".
ENABLE_TTS == TRUE

Artifacts == {"summary.pdf", "graphical_abstract.png", "voiceover.mp3",
              "presentation.pptx"}

\* A field of a response: None, or the URL of file `name` of request `rid`.
Null == [rid |-> 0, file |-> ""]
Url(rid, name) == [rid |-> rid, file |-> name]

\* What a request brings and what its collaborators do: the two flags,
\* whether initialize_stable_diffusion, the image pipeline and the voice
\* service succeed, and where a required step fails: "early" (validation,
\* PDF extraction, summary, summary.pdf), "late" (presentation), "none".
PaperInputs ==
  [generate_visual : BOOLEAN, generate_audio : BOOLEAN, load_ok : BOOLEAN,
   image_ok : BOOLEAN, voice_ok : BOOLEAN, fatal : {"none", "early", "late"}]

\* Lines 290-329 with no other request in flight: the instance there is,
\* else a load, which stores the instance or raises.
LazyLoad(handle, load_ok) ==
  IF handle # 0 THEN [res |-> "fast", pipe |-> handle, handle |-> handle]
  ELSE IF load_ok THEN [res |-> "loaded", pipe |-> 1, handle |-> 1]
  ELSE [res |-> "failed", pipe |-> 0, handle |-> 0]

\* Lines 1061-1085: build_url is called with the four literal file names.
Response(rid, files) == [a \in Artifacts |-> Url(rid, a)]

NoFields == [a \in Artifacts |-> Null]

\* A body in which a failed optional step fails the request.
ProcessBodyStrict(handle, rid, in) ==
  LET want == ENABLE_SDXL /\ in.generate_visual
      ll == IF want THEN LazyLoad(handle, in.load_ok)
            ELSE [res |-> "skipped", pipe |-> 0, handle |-> handle]
      failed == ll.res = "failed" \/ ~in.image_ok \/ ~in.voice_ok
  IN [handle |-> ll.handle,
      files |-> {},
      run |-> [rid |-> rid, visual |-> in.generate_visual, fatal |-> in.fatal,
               load |-> ll.res,
               image |-> IF in.image_ok THEN "skipped" ELSE "failed",
               voice |-> IF in.voice_ok THEN "skipped" ELSE "failed",
               outcome |-> IF failed \/ in.fatal # "none" THEN "http_error" ELSE "ok",
               warnings |-> {},
               response |-> NoFields]]

\* Lines 952-1091 for request `rid`: what the run did, the files it left in
\* its directory and the new value of _SDXL_PIPE.
ProcessBody(handle, rid, in) ==
  LET want == ENABLE_SDXL /\ in.generate_visual
      want_audio == ENABLE_TTS /\ in.generate_audio
      ll == IF want THEN LazyLoad(handle, in.load_ok)
            ELSE [res |-> "skipped", pipe |-> 0, handle |-> handle]
      wantVisual == want /\ ll.res # "failed"
      image == IF in.fatal = "early" THEN "none"
               ELSE IF wantVisual /\ ll.pipe # 0
                 THEN (IF in.image_ok THEN "ok" ELSE "failed")
                 ELSE "skipped"
      voice == IF in.fatal = "early" THEN "none"
               ELSE IF want_audio
                 THEN (IF in.voice_ok THEN "ok" ELSE "failed")
                 ELSE "skipped"
      files == (IF in.fatal = "early" THEN {} ELSE {"summary.pdf"})
                 \cup (IF image = "ok" THEN {"graphical_abstract.png"} ELSE {})
                 \cup (IF voice = "ok" THEN {"voiceover.mp3"} ELSE {})
                 \cup (IF in.fatal = "none" THEN {"presentation.pptx"} ELSE {})
      warns == (IF ll.res = "failed" THEN {"SDXL_LOAD_FAILED"} ELSE {})
                 \cup (IF image = "failed" THEN {"SDXL_FAILED"} ELSE {})
                 \cup (IF voice = "failed" THEN {"TTS_FAILED"} ELSE {})
  IN [handle |-> ll.handle,
      files |-> files,
      run |-> [rid |-> rid, visual |-> in.generate_visual, fatal |-> in.fatal,
               load |-> ll.res, image |-> image, voice |-> voice,
               outcome |-> IF in.fatal = "none" THEN "ok" ELSE "http_error",
               warnings |-> IF in.fatal = "none" THEN warns ELSE {},
               response |-> IF in.fatal = "none" THEN Response(rid, files)
                            ELSE NoFields]]

\* A status that names every artifact of a directory that exists.
StatusOfDir(rid, dir) ==
  IF dir.state # "present" THEN [rid |-> rid, code |-> 404, fields |-> NoFields]
  ELSE [rid |-> rid, code |-> 200, fields |-> [a \in Artifacts |-> Url(rid, a)]]

\* Lines 544-566: 404 unless the directory exists, else for each artifact
\* its URL if the file exists and None if not.
Status(rid, dir) ==
  IF dir.state # "present" THEN [rid |-> rid, code |-> 404, fields |-> NoFields]
  ELSE [rid |-> rid, code |-> 200,
        fields |-> [a \in Artifacts |-> IF a \in dir.files THEN Url(rid, a) ELSE Null]]

NoRun == [rid |-> 0, visual |-> FALSE, fatal |-> "none", load |-> "skipped", image |-> "none",
          voice |-> "none", outcome |-> "none", warnings |-> {},
          response |-> NoFields]
NoStatus == [rid |-> 0, code |-> 0, fields |-> NoFields]

PaperInit ==
  /\ ppPipe = 0
  /\ ppWs = [w \in WsIds |-> [state |-> "none", files |-> {}]]
  /\ ppRun = NoRun
  /\ stResp = NoStatus

\* One request, with the fresh request_id w, from line 952 to its response.
ProcessPaper(w, in) ==
  /\ ppWs[w].state = "none"
  /\ LET res == ProcessBody(ppPipe, w, in)
     IN /\ ppPipe' = res.handle
        /\ ppWs' = [ppWs EXCEPT ![w] = [state |-> "present", files |-> res.files]]
        /\ ppRun' = res.run
  /\ UNCHANGED stResp

\* The sweep removes the directory of w (lines 369 and 394).
Evict(w) ==
  /\ ppWs[w].state = "present"
  /\ ppWs' = [ppWs EXCEPT ![w] = [state |-> "evicted", files |-> {}]]
  /\ UNCHANGED <<ppPipe, ppRun, stResp>>

\* GET /status/w, once in a run.
GetStatus(w) ==
  /\ stResp = NoStatus
  /\ stResp' = Status(w, ppWs[w])
  /\ UNCHANGED <<ppPipe, ppWs, ppRun>>

(***************************************************************************)
(* Specifications.  Each runs one component; the others stay as they are   *)
(* after start-up.                                                         *)
(***************************************************************************)
GateIdle ==
  /\ CONCURRENCY_LIMIT = MaxLimit
  /\ CONC_SEM = CONCURRENCY_LIMIT
  /\ pc = [r \in Reqs |-> "idle"]
  /\ cur = 0
  /\ generate_visual = [r \in Reqs |-> FALSE]
  /\ want_visual = [r \in Reqs |-> FALSE]
  /\ pipe = [r \in Reqs |-> 0]
  /\ warnings = [r \in Reqs |-> {}]
  /\ dirs = {}
  /\ outcome = [r \in Reqs |-> "none"]
  /\ acquired = [r \in Reqs |-> FALSE]
  /\ released = [r \in Reqs |-> 0]
  /\ SDXL_PIPE = 0
  /\ SDXL_LOADING = FALSE
  /\ SDXL_LOAD_LOCK = 0
  /\ thr = [r \in Reqs |-> "none"]
  /\ thrRet = [r \in Reqs |-> 0]
  /\ llRes = [r \in Reqs |-> "none"]
  /\ waitedOn = [r \in Reqs |-> 0]

RLIdle == RLInitWith(0)
RaceIdle == RaceInit
SweepIdle == SweepInitWith(MaxTTL, MaxCap)
DlIdle == DlInitWith(FALSE, << >>)
AdmIdle == AdmInitWith("")
PaperIdle == PaperInit
ClockIdle == ClockInit

\* The requests, the gate and the loader.
Init == GateInit /\ RLIdle /\ RaceIdle /\ SweepIdle /\ DlIdle /\ AdmIdle /\ PaperIdle /\ ClockIdle
Next ==
  \/ \E r \in Reqs, gv \in BOOLEAN : Arrive(r, gv) /\ UNCHANGED <<rlVars, raceVars, sweepVars, dlVars, admVars, paperVars, clockVars>>
  \/ \E r \in Reqs : Grant(r) /\ UNCHANGED <<rlVars, raceVars, sweepVars, dlVars, admVars, paperVars, clockVars>>
  \/ \E r \in Reqs : Mkdir(r) /\ UNCHANGED <<rlVars, raceVars, sweepVars, dlVars, admVars, paperVars, clockVars>>
  \/ \E r \in Reqs : LLFast(r) /\ UNCHANGED <<rlVars, raceVars, sweepVars, dlVars, admVars, paperVars, clockVars>>
  \/ \E r \in Reqs : LLLocked(r) /\ UNCHANGED <<rlVars, raceVars, sweepVars, dlVars, admVars, paperVars, clockVars>>
  \/ \E r \in Reqs : Resume(r) /\ UNCHANGED <<rlVars, raceVars, sweepVars, dlVars, admVars, paperVars, clockVars>>
  \/ \E t \in Reqs : InitCheck(t) /\ UNCHANGED <<rlVars, raceVars, sweepVars, dlVars, admVars, paperVars, clockVars>>
  \/ \E t \in Reqs : InitStore(t) /\ UNCHANGED <<rlVars, raceVars, sweepVars, dlVars, admVars, paperVars, clockVars>>
  \/ \E t \in Reqs : InitRaise(t) /\ UNCHANGED <<rlVars, raceVars, sweepVars, dlVars, admVars, paperVars, clockVars>>
  \/ \E r \in Reqs : ExecDone(r) /\ UNCHANGED <<rlVars, raceVars, sweepVars, dlVars, admVars, paperVars, clockVars>>
  \/ \E r \in Reqs, how \in Outcomes : Finish(r, how) /\ UNCHANGED <<rlVars, raceVars, sweepVars, dlVars, admVars, paperVars, clockVars>>
  \/ \E r \in Reqs : Abort(r) /\ UNCHANGED <<rlVars, raceVars, sweepVars, dlVars, admVars, paperVars, clockVars>>
Spec == Init /\ [][Next]_vars

\* The same with the scheduling of the code: the event loop runs every
\* coroutine that is ready again and again (a ready coroutine runs at the
\* next turn at which the loop is free), and an executor thread that was
\* started runs to its end.  A cancellation may come or not.
CoroutineStep(r) ==
  /\ \/ Grant(r) \/ Mkdir(r) \/ LLFast(r) \/ LLLocked(r) \/ Resume(r) \/ ExecDone(r)
     \/ \E how \in Outcomes : Finish(r, how)
  /\ UNCHANGED <<rlVars, raceVars, sweepVars, dlVars, admVars, paperVars, clockVars>>
ThreadStep(t) ==
  /\ InitCheck(t) \/ InitStore(t) \/ InitRaise(t)
  /\ UNCHANGED <<rlVars, raceVars, sweepVars, dlVars, admVars, paperVars, clockVars>>
Fairness ==
  /\ \A r \in Reqs : SF_vars(CoroutineStep(r))
  /\ \A t \in Reqs : WF_vars(ThreadStep(t))
SpecFair == Init /\ [][Next]_vars /\ Fairness

\* The same with a scheduler that is weakly fair only: a coroutine or a
\* thread that stays ready runs.
WeakFairness ==
  /\ \A r \in Reqs : WF_vars(CoroutineStep(r))
  /\ \A t \in Reqs : WF_vars(ThreadStep(t))
SpecWeakFair == Init /\ [][Next]_vars /\ WeakFairness

\* The rate limiter, one admission check at a time.
InitRL == GateIdle /\ RLInit /\ RaceIdle /\ SweepIdle /\ DlIdle /\ AdmIdle /\ PaperIdle /\ ClockIdle
NextRL ==
  \E key \in Keys, now \in Times :
    Enforce(key, now) /\ UNCHANGED <<gateVars, loadVars, raceVars, sweepVars, dlVars, admVars, paperVars, clockVars>>
SpecRL == InitRL /\ [][NextRL]_vars

\* The rate limiter on concurrent worker threads.
InitRace ==
  /\ GateIdle /\ SweepIdle /\ DlIdle /\ AdmIdle /\ PaperIdle /\ ClockIdle /\ RaceInit
  /\ \E capacity \in 1..MaxCapacity : RLInitWith(capacity)
NextRace ==
  \/ \E t \in Threads, now \in RaceTimes :
       RcCall(t, now) /\ UNCHANGED <<gateVars, loadVars, rlVars, sweepVars, dlVars, admVars, paperVars, clockVars>>
  \/ \E t \in Threads : RcGet(t) /\ UNCHANGED <<gateVars, loadVars, rlVars, sweepVars, dlVars, admVars, paperVars, clockVars>>
  \/ \E t \in Threads : RcCreate(t) /\ UNCHANGED <<gateVars, loadVars, rlVars, sweepVars, dlVars, admVars, paperVars, clockVars>>
  \/ \E t \in Threads : RcReadLast(t) /\ UNCHANGED <<gateVars, loadVars, rlVars, sweepVars, dlVars, admVars, paperVars, clockVars>>
  \/ \E t \in Threads : RcWriteLast(t) /\ UNCHANGED <<gateVars, loadVars, rlVars, sweepVars, dlVars, admVars, paperVars, clockVars>>
  \/ \E t \in Threads : RcReadTokens(t) /\ UNCHANGED <<gateVars, loadVars, rlVars, sweepVars, dlVars, admVars, paperVars, clockVars>>
  \/ \E t \in Threads : RcWriteTokens(t) /\ UNCHANGED <<gateVars, loadVars, rlVars, sweepVars, dlVars, admVars, paperVars, clockVars>>
  \/ \E t \in Threads : RcTest(t) /\ UNCHANGED <<gateVars, loadVars, rlVars, sweepVars, dlVars, admVars, paperVars, clockVars>>
  \/ \E t \in Threads : RcReadDec(t) /\ UNCHANGED <<gateVars, loadVars, rlVars, sweepVars, dlVars, admVars, paperVars, clockVars>>
  \/ \E t \in Threads : RcWriteDec(t) /\ UNCHANGED <<gateVars, loadVars, rlVars, sweepVars, dlVars, admVars, paperVars, clockVars>>
SpecRace == InitRace /\ [][NextRace]_vars

\* The sweep, with requests creating and filling workspaces.
InitSweep == GateIdle /\ RLIdle /\ RaceIdle /\ SweepInit /\ DlIdle /\ AdmIdle /\ PaperIdle /\ ClockIdle
NextSweep ==
  \/ \E w \in WsIds : CreateWs(w) /\ UNCHANGED <<gateVars, loadVars, rlVars, raceVars, dlVars, admVars, paperVars, clockVars>>
  \/ \E w \in WsIds, bytes \in 1..MaxSize :
       AddFile(w, bytes) /\ UNCHANGED <<gateVars, loadVars, rlVars, raceVars, dlVars, admVars, paperVars, clockVars>>
  \/ \E w \in WsIds, how \in Exits :
       EndReq(w, how) /\ UNCHANGED <<gateVars, loadVars, rlVars, raceVars, dlVars, admVars, paperVars, clockVars>>
  \/ Tick /\ UNCHANGED <<gateVars, loadVars, rlVars, raceVars, dlVars, admVars, paperVars, clockVars>>
  \/ \E fail \in SUBSET Expired(ws, clock, TTL_SECONDS) :
       SweepTTL(fail) /\ UNCHANGED <<gateVars, loadVars, rlVars, raceVars, dlVars, admVars, paperVars, clockVars>>
  \/ \E fail \in SUBSET PresentIds(ws) :
       SweepCap(fail) /\ UNCHANGED <<gateVars, loadVars, rlVars, raceVars, dlVars, admVars, paperVars, clockVars>>
  \/ SweepError /\ UNCHANGED <<gateVars, loadVars, rlVars, raceVars, dlVars, admVars, paperVars, clockVars>>
SpecSweep == InitSweep /\ [][NextSweep]_vars

\* Download links: made by the two endpoints, followed by clients.
InitDl == GateIdle /\ RLIdle /\ RaceIdle /\ SweepIdle /\ DlInit /\ AdmIdle /\ PaperIdle /\ ClockIdle
NextDl ==
  \/ DlTick /\ UNCHANGED <<gateVars, loadVars, rlVars, raceVars, sweepVars, admVars, paperVars, clockVars>>
  \/ StatusUrl /\ UNCHANGED <<gateVars, loadVars, rlVars, raceVars, sweepVars, admVars, paperVars, clockVars>>
  \/ ResponseUrl /\ UNCHANGED <<gateVars, loadVars, rlVars, raceVars, sweepVars, admVars, paperVars, clockVars>>
  \/ DownloadIssued /\ UNCHANGED <<gateVars, loadVars, rlVars, raceVars, sweepVars, admVars, paperVars, clockVars>>
  \/ DownloadTampered /\ UNCHANGED <<gateVars, loadVars, rlVars, raceVars, sweepVars, admVars, paperVars, clockVars>>
  \/ DownloadRespliced /\ UNCHANGED <<gateVars, loadVars, rlVars, raceVars, sweepVars, admVars, paperVars, clockVars>>
  \/ DownloadForged /\ UNCHANGED <<gateVars, loadVars, rlVars, raceVars, sweepVars, admVars, paperVars, clockVars>>
SpecDl == InitDl /\ [][NextDl]_vars

\* The requests from their dependencies on: capacity 1, so that a second
\* request of a client is turned away.
InitAdmit == GateInit /\ RLInitWith(1) /\ RaceIdle /\ SweepIdle /\ DlIdle /\ AdmInit /\ PaperIdle /\ ClockIdle
NextAdmit ==
  \/ \E r \in Reqs, header \in Headers :
       Depends(r, header) /\ UNCHANGED <<gateVars, loadVars, raceVars, sweepVars, dlVars, paperVars, clockVars>>
  \/ \E r \in Reqs, gv \in BOOLEAN :
       DepsPassed(r) /\ Arrive(r, gv) /\ UNCHANGED <<rlVars, raceVars, sweepVars, dlVars, admVars, paperVars, clockVars>>
  \/ \E r \in Reqs : Grant(r) /\ UNCHANGED <<rlVars, raceVars, sweepVars, dlVars, admVars, paperVars, clockVars>>
  \/ \E r \in Reqs : Mkdir(r) /\ UNCHANGED <<rlVars, raceVars, sweepVars, dlVars, admVars, paperVars, clockVars>>
  \/ \E r \in Reqs : LLFast(r) /\ UNCHANGED <<rlVars, raceVars, sweepVars, dlVars, admVars, paperVars, clockVars>>
  \/ \E r \in Reqs : LLLocked(r) /\ UNCHANGED <<rlVars, raceVars, sweepVars, dlVars, admVars, paperVars, clockVars>>
  \/ \E r \in Reqs : Resume(r) /\ UNCHANGED <<rlVars, raceVars, sweepVars, dlVars, admVars, paperVars, clockVars>>
  \/ \E t \in Reqs : InitCheck(t) /\ UNCHANGED <<rlVars, raceVars, sweepVars, dlVars, admVars, paperVars, clockVars>>
  \/ \E t \in Reqs : InitStore(t) /\ UNCHANGED <<rlVars, raceVars, sweepVars, dlVars, admVars, paperVars, clockVars>>
  \/ \E t \in Reqs : InitRaise(t) /\ UNCHANGED <<rlVars, raceVars, sweepVars, dlVars, admVars, paperVars, clockVars>>
  \/ \E r \in Reqs : ExecDone(r) /\ UNCHANGED <<rlVars, raceVars, sweepVars, dlVars, admVars, paperVars, clockVars>>
  \/ \E r \in Reqs, how \in Outcomes :
       Finish(r, how) /\ UNCHANGED <<rlVars, raceVars, sweepVars, dlVars, admVars, paperVars, clockVars>>
  \/ \E r \in Reqs : Abort(r) /\ UNCHANGED <<rlVars, raceVars, sweepVars, dlVars, admVars, paperVars, clockVars>>
SpecAdmit == InitAdmit /\ [][NextAdmit]_vars

\* process_paper and status, one request at a time, and the sweep.
InitPaper == GateIdle /\ RLIdle /\ RaceIdle /\ SweepIdle /\ DlIdle /\ AdmIdle /\ PaperInit /\ ClockIdle
NextPaper ==
  \/ \E w \in WsIds, in \in PaperInputs :
       ProcessPaper(w, in) /\ UNCHANGED <<gateVars, loadVars, rlVars, raceVars, sweepVars, dlVars, admVars, clockVars>>
  \/ \E w \in WsIds :
       Evict(w) /\ UNCHANGED <<gateVars, loadVars, rlVars, raceVars, sweepVars, dlVars, admVars, clockVars>>
  \/ \E w \in WsIds :
       GetStatus(w) /\ UNCHANGED <<gateVars, loadVars, rlVars, raceVars, sweepVars, dlVars, admVars, clockVars>>
SpecPaper == InitPaper /\ [][NextPaper]_vars

\* The rate limiter under a clock that does not go back, MaxCalls checks.
InitWindow ==
  /\ GateIdle /\ RaceIdle /\ SweepIdle /\ DlIdle /\ AdmIdle /\ PaperIdle /\ ClockInit
  /\ RLInit
NextWindow ==
  \E key \in Keys, now \in Times :
    TimedCheck(key, now)
      /\ UNCHANGED <<gateVars, loadVars, raceVars, sweepVars, dlVars, admVars, paperVars>>
SpecWindow == InitWindow /\ [][NextWindow]_vars

\* Clients that keep coming back, each after a positive interval, as long
\* as the clock of the model lasts.
InitRetry ==
  /\ GateIdle /\ RaceIdle /\ SweepIdle /\ DlIdle /\ AdmIdle /\ PaperIdle /\ ClockInit
  /\ \E capacity \in 1..MaxCapacity : RLInitWith(capacity)
RetryOf(key) ==
  \E now \in Times :
    Retry(key, now)
      /\ UNCHANGED <<gateVars, loadVars, raceVars, sweepVars, dlVars, admVars, paperVars>>
NextRetry == \E key \in Keys : RetryOf(key)
SpecRetry == InitRetry /\ [][NextRetry]_vars /\ \A key \in Keys : WF_vars(RetryOf(key))

(***************************************************************************)
(* Claims about the concurrency gate.                                      *)
(***************************************************************************)
Holders == {r \in Reqs : acquired[r] /\ released[r] = 0}
InProgress == {r \in Reqs : pc[r] \notin {"idle", "done"}}
Releases == {r \in Reqs : released[r] > 0}

\* C1: in every reachable state the number of free slots of the semaphore
\* is within 0..CONCURRENCY_LIMIT and no more than CONCURRENCY_LIMIT
\* requests hold a slot at the same time.
GateWithinLimit ==
  /\ 0 <= CONC_SEM
  /\ CONC_SEM <= CONCURRENCY_LIMIT
  /\ Cardinality(Holders) <= CONCURRENCY_LIMIT

\* C2: a request that acquired a slot releases it exactly once on every
\* exit path, and whenever no request is in progress the number of free
\* slots is exactly CONCURRENCY_LIMIT again.
SlotsRestoredWhenIdle ==
  /\ \A r \in Reqs : pc[r] = "done" /\ acquired[r] => released[r] = 1
  /\ InProgress = {} => CONC_SEM = CONCURRENCY_LIMIT

\* C21: a request turned away by require_bearer_token (401, 403) or by
\* enforce_rate_limit (429) never gets a slot of the semaphore, never makes
\* a request directory and never starts the model load; and a request turned
\* away by require_bearer_token has taken no token of a bucket.
Rejected(r) == dep[r] \in {"401", "403", "429"}
RejectedBeforeAllocation ==
  \A r \in Reqs :
    /\ Rejected(r) =>
         /\ pc[r] = "idle"
         /\ ~acquired[r]
         /\ released[r] = 0
         /\ r \notin dirs
         /\ thr[r] = "none"
         /\ llRes[r] = "none"
    /\ dep[r] \in {"401", "403"} => ~charged[r]

\* One request was turned away with 403 and one with 429 while a third,
\* which took the token of that bucket, holds a slot and has its directory.
RejectedWhileOthersRun ==
  \E a, b, c \in Reqs :
    /\ dep[a] = "403"
    /\ dep[b] = "429"
    /\ DOMAIN RATE_BUCKETS = {<<"tok", "good">>}
    /\ charged[c]
    /\ acquired[c]
    /\ c \in dirs
    /\ thr[c] = "submitted"

\* C23: when CONCURRENCY_LIMIT + 1 requests have called acquire() and none
\* has released, exactly CONCURRENCY_LIMIT of them were granted at once and
\* one is suspended; it is granted only after one of the holders released,
\* and once a slot is free it is granted (unless it is cancelled while it
\* waits).
Called == {r \in Reqs : pc[r] # "idle"}
Suspended == {r \in Reqs : pc[r] = "acquire"}
GrantedAtOnce ==
  Cardinality(Called) = CONCURRENCY_LIMIT + 1 /\ Releases = {} =>
    /\ Cardinality({r \in Reqs : acquired[r]}) = CONCURRENCY_LIMIT
    /\ Cardinality(Suspended) = 1
GrantAfterRelease ==
  \A r \in Reqs :
    /\ Cardinality(Called) = CONCURRENCY_LIMIT + 1
    /\ pc[r] = "acquire"
    /\ acquired'[r]
    => \E h \in Reqs \ {r} : acquired[h] /\ released[h] > 0
GateScenario ==
  /\ []GrantedAtOnce
  /\ [][GrantAfterRelease]_vars
  /\ \A r \in Reqs :
       (pc[r] = "acquire" /\ CONC_SEM > 0) ~> (acquired[r] \/ outcome[r] = "cancelled")

\* Limit 2 and three requests: two hold a slot, the third is suspended in
\* acquire() and no slot has been released.
TwoGrantedOneSuspended ==
  /\ CONCURRENCY_LIMIT = 2
  /\ Cardinality(Called) = 3
  /\ Cardinality(Holders) = 2
  /\ Cardinality(Suspended) = 1
  /\ Releases = {}
  /\ CONC_SEM = 0

\* C35: the gate and the load lock never deadlock: with limit >= 1 and a
\* weakly fair scheduler, loads that end and body steps that end, every
\* request that called acquire() gets a slot, every request in the lazy
\* loader leaves it with an instance or a failure, and every request that
\* got a slot releases it (a request may be cancelled while it waits: then
\* it ends at once).
InLoader(r) == pc[r] \in {"ll_fast", "ll_locked", "lock_wait", "poll", "exec_wait"}
Cancelled(r) == outcome[r] = "cancelled"
Blocked ==
  /\ InProgress # {}
  /\ \A r \in Reqs : ~ENABLED CoroutineStep(r)
  /\ \A t \in Reqs : ~ENABLED ThreadStep(t)
GateAndLockNeverDeadlock ==
  /\ []~Blocked
  /\ \A r \in Reqs :
       /\ pc[r] = "acquire" ~> (acquired[r] \/ Cancelled(r))
       /\ InLoader(r) ~> (llRes[r] \in {"returned", "raised"} \/ Cancelled(r))
       /\ acquired[r] ~> released[r] = 1

\* The gate is full, one holder waits for its load, the other holder is
\* suspended on the load lock, and a third request is suspended in
\* acquire().
HoldersInLoaderOneSuspended ==
  \E a, b, c \in Reqs :
    /\ CONC_SEM = 0
    /\ pc[a] = "exec_wait" /\ acquired[a] /\ SDXL_LOAD_LOCK = a
    /\ pc[b] = "lock_wait" /\ acquired[b] /\ waitedOn[b] = a
    /\ pc[c] = "acquire" /\ ~acquired[c]

\* C28: release() is executed only by a request whose acquire() returned:
\* on every path, the abort of a request still suspended in acquire()
\* included, no request has released without having acquired, and the
\* releases never outnumber the successful acquires.
ReleaseOnlyAfterAcquire ==
  /\ \A r \in Reqs : released[r] > 0 => acquired[r]
  /\ Cardinality(Releases) <= Cardinality({r \in Reqs : acquired[r]})

(***************************************************************************)
(* Claims about the lazy singleton loader.                                 *)
(***************************************************************************)
LoadsInFlight == {t \in Reqs : thr[t] \in {"submitted", "loading"}}

\* C6: there is never a state in which two executions of
\* initialize_stable_diffusion are running at the same time.
AtMostOneLoadInFlight == Cardinality(LoadsInFlight) <= 1

\* C7: a caller that arrived while a load was in flight observes the outcome
\* of that load: the same instance if it succeeded; if it failed, the
\* failure, without returning None and without starting a load of its own.
WaitersShareOutcome ==
  \A w \in Reqs :
    LET l == waitedOn[w] IN
      l # 0 =>
        /\ llRes[l] = "returned" /\ llRes[w] = "returned" => pipe[w] = pipe[l]
        /\ llRes[l] = "raised" => thr[w] = "none" /\ llRes[w] # "returned"

\* C8: once _SDXL_PIPE holds an instance it holds that instance for ever,
\* no later step starts another load, and every call that returns from then
\* on returns that instance.
ReadyStep ==
  SDXL_PIPE # 0 =>
    /\ SDXL_PIPE' = SDXL_PIPE
    /\ \A r \in Reqs : thr[r] = "none" => thr'[r] = "none"
    /\ \A r \in Reqs : llRes[r] # "returned" /\ llRes'[r] = "returned"
                         => pipe'[r] = SDXL_PIPE
ReadyIsTerminal == [][ReadyStep]_vars

\* C9: when initialize_stable_diffusion raises, the loader leaves the handle
\* Unloaded: _SDXL_PIPE is None, _SDXL_LOADING is False and the load lock
\* is free, so that the next caller loads again.
LoadFailedStep(r) ==
  /\ pc[r] = "exec_wait"
  /\ thr[r] = "raised"
  /\ pc'[r] = "validate"
FailedLoadStep ==
  \A r \in Reqs :
    LoadFailedStep(r) => SDXL_PIPE' = 0 /\ ~SDXL_LOADING' /\ SDXL_LOAD_LOCK' = 0
FailedLoadLeavesUnloaded == [][FailedLoadStep]_vars

\* The polling branch of lines 302-306 is never entered: _SDXL_LOADING is
\* only true while the loader holds the lock.
PollingUnreached ==
  /\ \A r \in Reqs : pc[r] # "poll"
  /\ SDXL_LOADING => SDXL_LOAD_LOCK # 0

\* C29: the loader that set _SDXL_LOADING has released the load lock before
\* initialize_stable_diffusion runs: while its load is in flight the lock is
\* not held by it, so that a caller arriving then can take the lock.
LoadRunning(r) == pc[r] = "exec_wait" /\ thr[r] \in {"submitted", "loading"}
LockFreeDuringLoad == \A r \in Reqs : LoadRunning(r) => SDXL_LOAD_LOCK # r

(***************************************************************************)
(* Claims about process_paper and status.                                  *)
(***************************************************************************)

\* C26: when the model load, the image generation or the narration fails,
\* and no required step does, the request completes successfully and its
\* warnings name the failure; a failed load disables the image of that
\* request only: the next request that asks for the image, while no
\* instance is stored, loads again.
WarningsNameFailures ==
  ppRun.rid # 0 /\ ppRun.fatal = "none" =>
    /\ ppRun.outcome = "ok"
    /\ "SDXL_LOAD_FAILED" \in ppRun.warnings <=> ppRun.load = "failed"
    /\ "SDXL_FAILED" \in ppRun.warnings <=> ppRun.image = "failed"
    /\ "TTS_FAILED" \in ppRun.warnings <=> ppRun.voice = "failed"
    /\ ppRun.load = "failed" => ppRun.image = "skipped"
LoadTriedAgain ==
  ppRun'.rid # ppRun.rid /\ ppRun'.visual /\ ppPipe = 0 =>
    ppRun'.load \in {"loaded", "failed"}
OptionalFailuresTolerated == []WarningsNameFailures /\ [][LoadTriedAgain]_vars

\* The second request of a run: its load failed, as did its narration, and
\* it was answered with both warnings; the first request had asked for the
\* image too and has none.
SecondLoadFailedToo ==
  \E w \in WsIds :
    /\ ppRun.rid \notin {0, w}
    /\ ppWs[w].state = "present"
    /\ "presentation.pptx" \in ppWs[w].files
    /\ ppPipe = 0
    /\ ppRun.visual
    /\ ppRun.outcome = "ok"
    /\ ppRun.warnings = {"SDXL_LOAD_FAILED", "TTS_FAILED"}

\* C27: status answers 404 exactly when there is no directory of that id
\* (never made, or removed by the sweep); else each of the four fields is
\* the URL of its file if the file exists and None if not.
StatusStep ==
  stResp = NoStatus /\ stResp' # NoStatus =>
    LET dir == ppWs[stResp'.rid] IN
      /\ stResp'.code \in {200, 404}
      /\ stResp'.code = 404 <=> dir.state # "present"
      /\ \A a \in Artifacts :
           stResp'.fields[a] =
             IF dir.state = "present" /\ a \in dir.files
               THEN Url(stResp'.rid, a) ELSE Null
StatusReflectsDirectory == [][StatusStep]_vars

\* Status of a directory that holds the summary and the presentation but
\* no image, while the directory of another request was removed.
StatusOfPartialDirectory ==
  /\ stResp.code = 200
  /\ stResp.fields["summary.pdf"] # Null
  /\ stResp.fields["presentation.pptx"] # Null
  /\ stResp.fields["graphical_abstract.png"] = Null
  /\ \E w \in WsIds : ppWs[w].state = "evicted"

\* C30: a successful response gives a URL only for the artifacts the
\* request produced: graphical_abstract and voiceover are None when the
\* step was disabled, skipped after a failed load, or failed.
ResponseNamesOnlyProduced ==
  ppRun.outcome = "ok" =>
    /\ ppRun.image # "ok" => ppRun.response["graphical_abstract.png"] = Null
    /\ ppRun.voice # "ok" => ppRun.response["voiceover.mp3"] = Null


(***************************************************************************)
(* Claims about the rate limiter.                                          *)
(***************************************************************************)

\* C3: while every check of a key has carried the same `now`, exactly the
\* first `capacity` checks of that key were admitted and every later one
\* was rejected (capacity >= 1).
AdmitsFirstCapacityOnly ==
  \A k \in Keys :
    RATE_LIMIT_PER_MINUTE >= 1 /\ rlSameNow[k] =>
      /\ rlAdmits[k] = Min(rlCalls[k], RATE_LIMIT_PER_MINUTE)
      /\ rlLast.key = k => (rlLast.admitted <=> rlCalls[k] <= RATE_LIMIT_PER_MINUTE)

\* A key was checked more often than its capacity of at least 2, always at
\* the same `now`, and the last check was rejected.
RejectedAfterCapacity ==
  \E k \in Keys :
    /\ RATE_LIMIT_PER_MINUTE >= 2
    /\ rlSameNow[k]
    /\ rlCalls[k] > RATE_LIMIT_PER_MINUTE
    /\ rlLast.key = k
    /\ ~rlLast.admitted

\* C4: the tokens of every bucket stay within 0..capacity, whatever the
\* `now` values of the checks were (capacity >= 1).
TokensWithinCapacity ==
  \A k \in DOMAIN RATE_BUCKETS :
    /\ 0 <= RATE_BUCKETS[k].tokens
    /\ RATE_BUCKETS[k].tokens <= RATE_LIMIT_PER_MINUTE * TokenScale

\* A bucket that went through checks at different `now` values, admitted
\* and rejected ones, and that holds a fraction of a token.
BucketAfterMixedChecks ==
  \E k \in DOMAIN RATE_BUCKETS :
    /\ ~rlSameNow[k]
    /\ rlAdmits[k] >= 2
    /\ rlCalls[k] > rlAdmits[k]
    /\ RATE_BUCKETS[k].tokens % TokenScale # 0

\* C22: after `capacity` admitted checks of one key and one rejected check,
\* all at the same instant, a check 60 / capacity seconds later (one token
\* refilled) is admitted and a check right after that one is rejected
\* (capacity >= 1; 20 seconds for capacity 3).
ExhaustedAtOnce(k) ==
  /\ RATE_LIMIT_PER_MINUTE >= 1
  /\ TokenScale % RATE_LIMIT_PER_MINUTE = 0
  /\ rlSameNow[k]
  /\ rlCalls[k] = RATE_LIMIT_PER_MINUTE + 1
OneMoreAdmitAfterRefill ==
  \A k \in Keys :
    ExhaustedAtOnce(k) =>
      LET later == RATE_BUCKETS[k].last + TokenScale \div RATE_LIMIT_PER_MINUTE
          first == RateLimitCheck(RATE_BUCKETS, RATE_LIMIT_PER_MINUTE, k, later)
          second == RateLimitCheck(first.buckets, RATE_LIMIT_PER_MINUTE, k, later)
      IN /\ rlAdmits[k] = RATE_LIMIT_PER_MINUTE
         /\ first.admitted
         /\ ~second.admitted

\* Capacity 3: three checks admitted and a fourth rejected at instant 0, a
\* fifth admitted 20 seconds later, which leaves the bucket empty.
FifthAdmittedAfterRefill ==
  \E k \in DOMAIN RATE_BUCKETS :
    /\ RATE_LIMIT_PER_MINUTE = 3
    /\ rlCalls[k] = 5
    /\ rlAdmits[k] = 4
    /\ rlLast = [key |-> k, now |-> 20, admitted |-> TRUE]
    /\ RATE_BUCKETS[k] = [tokens |-> 0, last |-> 20]

\* C24: the first check of a key that has no bucket is admitted and creates
\* the bucket with capacity - 1 tokens and last = now (capacity >= 1).
FirstCheckStep ==
  \A k \in Keys :
    /\ RATE_LIMIT_PER_MINUTE >= 1
    /\ k \notin DOMAIN RATE_BUCKETS
    /\ rlCalls'[k] = rlCalls[k] + 1
    => /\ rlLast'.key = k
       /\ rlLast'.admitted
       /\ k \in DOMAIN RATE_BUCKETS'
       /\ RATE_BUCKETS'[k] = [tokens |-> (RATE_LIMIT_PER_MINUTE - 1) * TokenScale,
                              last |-> rlLast'.now]
FirstCheckCreatesBucket == [][FirstCheckStep]_vars

\* A key checked once, after instant 0 and after another key: its bucket
\* holds capacity - 1 tokens and the time of the check.
BucketOfFirstCheck ==
  \E k \in DOMAIN RATE_BUCKETS :
    /\ RATE_LIMIT_PER_MINUTE >= 2
    /\ rlCalls[k] = 1
    /\ rlLast.key = k
    /\ rlLast.now > 0
    /\ RATE_BUCKETS[k].last = rlLast.now
    /\ DOMAIN RATE_BUCKETS # {k}

\* C25: with RATE_LIMIT_PER_MINUTE <= 0 enforce_rate_limit admits every
\* request and neither creates nor changes a bucket.
NoLimitNoBuckets ==
  RATE_LIMIT_PER_MINUTE <= 0 =>
    /\ DOMAIN RATE_BUCKETS = {}
    /\ \A k \in Keys : rlAdmits[k] = rlCalls[k]

\* Limiting is off and one key has been let in more often than any
\* capacity of the model would allow at one instant.
ManyAdmitsWithoutLimit ==
  \E k \in Keys :
    /\ RATE_LIMIT_PER_MINUTE < 0
    /\ rlSameNow[k]
    /\ rlAdmits[k] = MaxCalls
    /\ rlLast.admitted

\* C32: with a clock that does not go back and capacity >= 1, for every key
\* and every window of T seconds the checks of that key admitted inside the
\* window are at most capacity + T * capacity / 60.
RECURSIVE SumAdmits(_, _)
SumAdmits(f, S) ==
  IF S = {} THEN 0
  ELSE LET t == CHOOSE x \in S : TRUE IN f[t] + SumAdmits(f, S \ {t})
AdmitsIn(k, from, to) == SumAdmits(ckAdmits[k], {t \in Times : from <= t /\ t <= to})
AdmitsWithinWindowBound ==
  RATE_LIMIT_PER_MINUTE >= 1 =>
    \A k \in Keys : \A from \in Times : \A to \in Times :
      from <= to =>
        TokenScale * AdmitsIn(k, from, to)
          <= TokenScale * RATE_LIMIT_PER_MINUTE + (to - from) * RATE_LIMIT_PER_MINUTE

\* A key that used its burst and then the refill of a window that is not
\* empty: the bound is met exactly, and its last check was rejected.
WindowBoundMet ==
  \E k \in Keys : \E from \in Times : \E to \in Times :
    /\ RATE_LIMIT_PER_MINUTE >= 2
    /\ from < to
    /\ ckAdmits[k][to] > 0
    /\ TokenScale * AdmitsIn(k, from, to)
         = TokenScale * RATE_LIMIT_PER_MINUTE + (to - from) * RATE_LIMIT_PER_MINUTE
    /\ rlLast = [key |-> k, now |-> to, admitted |-> FALSE]

\* C33: a check of key k creates or changes the bucket of k only; the
\* bucket of every other key keeps its tokens and its last time, and a key
\* with no bucket or with a whole token is admitted whatever the other
\* buckets hold.
CheckOf(k) == rlCalls'[k] = rlCalls[k] + 1
OtherBucketsStep ==
  \A k \in Keys :
    CheckOf(k) =>
      /\ \A j \in Keys \ {k} :
           /\ j \in DOMAIN RATE_BUCKETS' <=> j \in DOMAIN RATE_BUCKETS
           /\ j \in DOMAIN RATE_BUCKETS => RATE_BUCKETS'[j] = RATE_BUCKETS[j]
      /\ RATE_LIMIT_PER_MINUTE >= 1
           /\ (k \notin DOMAIN RATE_BUCKETS \/ RATE_BUCKETS[k].tokens >= TokenScale)
           => rlLast'.admitted
ChecksTouchOwnBucketOnly == [][OtherBucketsStep]_vars

\* One key has been rejected and its bucket is empty; the other key was
\* checked after that and admitted.
AdmittedBesideExhausted ==
  \E k \in DOMAIN RATE_BUCKETS : \E j \in DOMAIN RATE_BUCKETS :
    /\ j # k
    /\ rlCalls[k] > rlAdmits[k]
    /\ RATE_BUCKETS[k].tokens = 0
    /\ rlLast.key = j
    /\ rlLast.admitted
    /\ rlLast.now = RATE_BUCKETS[k].last

\* C34: a rejected check takes no token and keeps the refill: it leaves
\* min(capacity, tokens + elapsed * capacity / 60) tokens and last = now; so
\* a client that comes back after positive intervals is admitted in the end
\* (within the clock readings of the model: when the readings left are
\* enough to refill one token).
RejectedStep ==
  \A k \in Keys :
    CheckOf(k) /\ ~rlLast'.admitted =>
      /\ k \in DOMAIN RATE_BUCKETS
      /\ RATE_BUCKETS'[k] =
           [tokens |-> Min(RATE_LIMIT_PER_MINUTE * TokenScale,
                           RATE_BUCKETS[k].tokens
                             + Elapsed(rlLast'.now, RATE_BUCKETS[k].last)
                                 * RATE_LIMIT_PER_MINUTE),
            last |-> rlLast'.now]
RejectedInTime(k) ==
  /\ rlLast.key = k
  /\ ~rlLast.admitted
  /\ RATE_BUCKETS[k].tokens
       + (MaxTicks * TimeStep - RATE_BUCKETS[k].last) * RATE_LIMIT_PER_MINUTE
       >= TokenScale
RetryingClientAdmitted ==
  /\ [][RejectedStep]_vars
  /\ \A k \in Keys : RejectedInTime(k) ~> (rlLast.key = k /\ rlLast.admitted)

\* A client rejected twice, each time after a positive interval, and then
\* admitted with the refill of the three intervals together.
AdmittedAfterTwoRejections ==
  \E k \in DOMAIN RATE_BUCKETS :
    /\ rlCalls[k] = rlAdmits[k] + 2
    /\ rlAdmits[k] = 2
    /\ rlLast.key = k
    /\ rlLast.admitted
    /\ RATE_BUCKETS[k].tokens = 0

\* the order `order`: the bucket and who was admitted.
RECURSIVE SeqRun(_, _, _, _)
SeqRun(order, i, buckets, rets) ==
  IF i > Len(order) THEN [buckets |-> buckets, rets |-> rets]
  ELSE LET res == RateLimitCheck(buckets, RATE_LIMIT_PER_MINUTE, 1, rcNow[order[i]])
       IN SeqRun(order, i + 1, res.buckets,
                 [rets EXCEPT ![order[i]] =
                    IF res.admitted THEN "admitted" ELSE "rejected"])

SomeOrderYields ==
  \E order \in Orders(Threads) :
    LET seq == SeqRun(order, 1, << >>, rcRet)
    IN /\ seq.rets = rcRet
       /\ seq.buckets[1] = rcObj[rcBucket]

\* C5: concurrent checks of one key behave as if they ran one at a time:
\* the tokens of the bucket stay within 0..capacity, and once all checks
\* have returned, the bucket and the admissions are those of some
\* sequential order of the checks.
ChecksAreSerializable ==
  /\ rcBucket # 0 =>
       /\ 0 <= rcObj[rcBucket].tokens
       /\ rcObj[rcBucket].tokens <= RATE_LIMIT_PER_MINUTE * TokenScale
  /\ (\A t \in Threads : rcPc[t] = "done") => SomeOrderYields

(***************************************************************************)
(* Claims about the sweep.                                                 *)
(***************************************************************************)
TTLPassStep == swPc = "idle" /\ swPc' = "ttl_done"
RemovedNow(w) == ws[w].state = "present" /\ ws'[w].state = "removed"
OlderThanTTL(w) == ws[w].state = "present" /\ clock - ws[w].mtime > TTL_SECONDS

\* C10 as stated: the TTL pass removes a workspace if and only if its age
\* is strictly greater than the TTL.
TTLStepRemovesAllExpired ==
  TTLPassStep => \A w \in WsIds : RemovedNow(w) <=> OlderThanTTL(w)
TTLRemovesExactlyExpired == [][TTLStepRemovesAllExpired]_vars

\* C10, amended: the TTL pass removes a workspace if and only if its age is
\* strictly greater than the TTL and its deletion does not fail, whatever
\* its size and the cap are; it removes no workspace of age <= TTL.
TTLStepRemovesDeletableExpired ==
  \A fail \in SUBSET PresentIds(ws) :
    SweepTTL(fail) =>
      \A w \in WsIds : RemovedNow(w) <=> (OlderThanTTL(w) /\ w \notin fail)
TTLRemovesExpiredUnlessFailed == [][TTLStepRemovesDeletableExpired]_vars

\* The TTL pass has just run; all workspaces ever created fit under the
\* cap together; a workspace of the largest size and older than the TTL is
\* gone and a younger, non-empty one is still there.
ExpiredGoneYoungKept ==
  /\ swPc = "ttl_done"
  /\ SumSizes(ws, {w \in WsIds : ws[w].state # "absent"}) <= SIZE_CAP_BYTES
  /\ \E w \in WsIds :
       /\ ws[w].state = "removed"
       /\ ws[w].size = MaxSize
       /\ clock - ws[w].mtime > TTL_SECONDS
  /\ \E v \in WsIds :
       /\ ws[v].state = "present"
       /\ ws[v].size >= 1
       /\ clock - ws[v].mtime <= TTL_SECONDS

\* ---- the size-cap pass ----
CapPassStep == swPc = "ttl_done" /\ swPc' = "idle"
RemovedInStep == {w \in WsIds : RemovedNow(w)}
OldestFirst(W, order) ==
  \A i \in 1..Len(order), j \in 1..Len(order) :
    i < j => W[order[i]].mtime <= W[order[j]].mtime
PrefixSet(order, n) == {order[i] : i \in 1..n}
Suffices(W, order, total, cap, n) ==
  total - SumSizes(W, PrefixSet(order, n)) <= cap

\* The shortest prefix of `order` whose removal brings `total` to at or
\* under the cap; the whole of `order` if no prefix does.
ShortestPrefix(W, order, total, cap) ==
  IF \E n \in 0..Len(order) : Suffices(W, order, total, cap, n)
    THEN PrefixSet(order,
           CHOOSE n \in 0..Len(order) :
             /\ Suffices(W, order, total, cap, n)
             /\ \A m \in 0..(n - 1) : ~Suffices(W, order, total, cap, m))
    ELSE PrefixSet(order, Len(order))

RemovesShortestOldestPrefix ==
  \E order \in Orders(PresentIds(ws)) :
    /\ OldestFirst(ws, order)
    /\ RemovedInStep =
         ShortestPrefix(ws, order, SumSizes(ws, PresentIds(ws)), SIZE_CAP_BYTES)

CapStepRemovesPrefixUnlessFailed ==
  /\ (CapPassStep /\ SweepCap({})) => RemovesShortestOldestPrefix
  /\ (CapPassStep /\ SumSizes(ws, PresentIds(ws)) <= SIZE_CAP_BYTES)
       => RemovedInStep = {}
WithinTTL(w) == ws[w].state = "present" /\ swNow - ws[w].mtime <= TTL_SECONDS
RemovedBefore(order, i) == {order[j] : j \in 1..(i - 1)} \cap RemovedInStep

\* C12: a sweep removes a workspace that is within the TTL only in the
\* size-cap pass, and only if the total size of the within-TTL workspaces
\* still there when its turn comes, oldest first, exceeds the cap; the TTL
\* pass removes no workspace of age <= TTL.
SweepStepSparesUnneeded ==
  /\ TTLPassStep =>
       \A w \in RemovedInStep : clock - ws[w].mtime > TTL_SECONDS
  /\ CapPassStep =>
       \E order \in Orders(PresentIds(ws)) :
         /\ OldestFirst(ws, order)
         /\ \A i \in 1..Len(order) :
              (WithinTTL(order[i]) /\ RemovedNow(order[i])) =>
                SumSizes(ws, {v \in PresentIds(ws) : WithinTTL(v)}
                               \ RemovedBefore(order, i)) > SIZE_CAP_BYTES
SweepSparesUnneeded == [][SweepStepSparesUnneeded]_vars

\* A sweep is over; an expired workspace is gone and a younger one is
\* still there, although the two together exceed the cap.
YoungKeptAfterExpiredGone ==
  /\ swPc = "idle"
  /\ \E w \in WsIds, v \in WsIds :
       /\ ws[w].state = "removed"
       /\ clock - ws[w].mtime > TTL_SECONDS
       /\ ws[v].state = "present"
       /\ ws[v].mtime > ws[w].mtime
       /\ ws[v].size <= SIZE_CAP_BYTES
       /\ ws[w].size + ws[v].size > SIZE_CAP_BYTES

\* C13: at the end of the size-cap pass the bytes that are left are at or
\* under the cap, or every surviving workspace has been attempted.
CapStepReachesCap ==
  CapPassStep =>
    \/ SumSizes(ws', PresentIds(ws')) <= SIZE_CAP_BYTES
    \/ \E order \in SortedOrders(ws, PresentIds(ws)),
          fail \in SUBSET PresentIds(ws) :
         LET res == SizeCapPass(ws, order, SumSizes(ws, PresentIds(ws)),
                                SIZE_CAP_BYTES, fail)
         IN /\ ws' = res.ws
            /\ Len(res.tried) = Cardinality(PresentIds(ws))
CapPassReachesCap == [][CapStepReachesCap]_vars

\* ---- failures inside a sweep ----
\* C14: a deletion that fails, or an error raised inside the sweep, ends
\* neither the remaining deletions of the pass nor the runner: the TTL pass
\* still removes every other expired workspace and goes on to the size-cap
\* pass, every sweep ends with the runner back at its loop, and no request
\* is touched.
SweepStepContained ==
  /\ swPc' \in {"idle", "ttl_done"}
  /\ \A fail \in SUBSET Expired(ws, clock, TTL_SECONDS) :
       SweepTTL(fail) =>
         /\ swPc' = "ttl_done"
         /\ \A w \in Expired(ws, clock, TTL_SECONDS) \ fail :
              ws'[w].state = "removed"
  /\ (swPc = "ttl_done" /\ swPc' # swPc) => swPc' = "idle"
  /\ swPc' # swPc => wsReq' = wsReq
SweepFailuresContained == [][SweepStepContained]_vars

\* The TTL pass of a sweep has left an expired workspace in place, has
\* removed another one, and the sweep goes on.
FailedDeletionSkipped ==
  /\ swPc = "ttl_done"
  /\ \E w \in WsIds, v \in WsIds :
       /\ ws[w].state = "present"
       /\ swNow - ws[w].mtime > TTL_SECONDS
       /\ ws[v].state = "removed"
       /\ swNow - ws[v].mtime > TTL_SECONDS

\* ---- two sweeps in a row ----
\* What _cleanup_temp_dir can leave when no deletion fails.
CleanupResults(W, now, ttl, cap) ==
  LET W1 == TTLPass(W, now, ttl, {})
  IN {CleanupTempDir(W, now, ttl, cap, order, {}) :
        order \in SortedOrders(W1, PresentIds(W1))}

\* C15: a second run of _cleanup_temp_dir at the same clock value, with no
\* workspace created or modified in between and no deletion failure,
\* removes nothing.
SweepIsIdempotent ==
  swPc = "idle" =>
    \A W1 \in CleanupResults(ws, clock, TTL_SECONDS, SIZE_CAP_BYTES) :
      CleanupResults(W1, clock, TTL_SECONDS, SIZE_CAP_BYTES) = {W1}

\* Between two sweeps: the first run removes an expired workspace and
\* leaves another workspace in place.
FirstRunRemovesSecondDoesNot ==
  /\ swPc = "idle"
  /\ Expired(ws, clock, TTL_SECONDS) # {}
  /\ \E W1 \in CleanupResults(ws, clock, TTL_SECONDS, SIZE_CAP_BYTES) :
       /\ PresentIds(W1) # {}
       /\ PresentIds(W1) # PresentIds(ws)

\* ---- requests and the sweep ----
\* C16: a request never deletes a workspace: when it ends, on whatever
\* path, every directory and its size are as they were; a directory goes
\* away only in a step of the sweep, and the size of a directory that stays
\* never shrinks.
HandlerStepKeepsFiles ==
  /\ (\E w \in WsIds : wsReq[w] = "running" /\ wsReq'[w] # "running")
       => ws' = ws
  /\ RemovedInStep # {} => swPc' # swPc
  /\ \A w \in WsIds :
       (ws[w].state = "present" /\ ws'[w].state = "present")
         => ws'[w].size >= ws[w].size
HandlersNeverDelete == [][HandlerStepKeepsFiles]_vars

\* Every request has ended and nothing has been removed: the
\* directories are all there, one with a file in it and one empty.
EndedRequestsKeepFiles ==
  /\ \A w \in WsIds : wsReq[w] = "ended" /\ ws[w].state = "present"
  /\ \E w \in WsIds : ws[w].size >= 1
  /\ \E w \in WsIds : ws[w].size = 0

\* C17: the sweep does not remove the workspace of a request that is
\* still creating or writing its files.
SweepSparesRunningRequests ==
  \A w \in WsIds : wsReq[w] = "running" => ws[w].state # "removed"

(***************************************************************************)
(* Claims about signed downloads.                                          *)
(***************************************************************************)
SigningOn == SIGNED_DOWNLOADS /\ DOWNLOAD_SIGNING_KEY # << >>
SigMatches ==
  dlReq.sig = Hmac(DOWNLOAD_SIGNING_KEY, Msg(dlReq.rid, dlReq.file, dlReq.exp))
HasSeparator(str) == \E i \in 1..Len(str) : str[i] = "/"
HasParentDir(str) == \E i \in 1..(Len(str) - 1) : str[i] = "." /\ str[i + 1] = "."

\* C18: a link made at time t with lifetime ttl carries exp = t + ttl, and
\* followed as it was made it passes the expiry and signature checks at
\* every time now <= exp and gets 410 at every time now > exp.
IssuedLinkRoundTrip ==
  (dlRef.kind = "signed" /\ dlReq.kind = "issued") =>
    /\ dlReq.exp - dlRef.at \in {StatusLinkSeconds, ResponseLinkSeconds}
    /\ dlResp.at <= dlReq.exp => dlResp.status \notin {410, 403}
    /\ dlResp.at > dlReq.exp => dlResp.status = 410

\* A link whose rid is changed by the URL encoding was followed at the
\* very second it expires, and the file was served.
LinkServedAtExpiry ==
  /\ dlReq.kind = "issued"
  /\ dlRef.rid # dlReq.rid
  /\ dlResp.at = dlReq.exp
  /\ dlResp.status = 200

TupleOf(req) == <<req.rid, req.file, req.exp>>
MacInputOfOneTuple ==
  (dlReq.kind # "none" /\ SigningOn /\ dlResp.at <= dlReq.exp) =>
    \A rid \in Rids : \A file \in FileNames : \A exp \in ExpValues :
      <<rid, file, exp>> # TupleOf(dlReq)
        => Msg(rid, file, exp) # Msg(dlReq.rid, dlReq.file, dlReq.exp)
IssuedSigForOneTuple ==
  ( /\ SigningOn
    /\ dlRef.kind = "signed"
    /\ dlReq.kind \in {"tampered", "respliced"}
    /\ dlReq.sig = dlRef.sig
    /\ TupleOf(dlReq) # TupleOf(Parsed(dlRef)) )
  => dlResp.status \in {403, 410}
SignatureBoundToOneTuple == MacInputOfOneTuple /\ IssuedSigForOneTuple

====
